---- MODULE Spec2Model ----
(***************************************************************************)
(* A model of the hyper-vault database core: the storage engine            *)
(* (src/db/storage_engine.rs), its persistence facade FileSystem, the      *)
(* predicate evaluation of the parser (src/db/parser.rs) and the query     *)
(* executor (src/db/executor.rs).                                          *)
(*                                                                         *)
(* Strings are TLA+ strings; Option<T> is the empty sequence (None) or a   *)
(* one-element sequence (Some); HashMap<K,V> is a function whose domain is *)
(* the set of keys.                                                        *)
(***************************************************************************)
EXTENDS Integers, Sequences, FiniteSets, TLC

VARIABLES
    storage_engine,   \* FileSystem.storage_engine: [tables, metadata]
    file,             \* the snapshot file at FileSystem.file_path: None or Some(contents)
    faults,           \* how many file operations have failed so far
    last              \* the call whose result the caller holds, or Idle

vars == <<storage_engine, file, faults, last>>

\* ------------------------------------------------------------------ bounds

\* total_operations is capped: no mutating call is issued once it is reached.
MaxOps == 4
\* No insert is issued into a table that already holds this many rows.
MaxRows == 2
\* At most this many file operations fail in one run.
MaxFaults == 1

\* The values SystemTime::now() returns, in seconds.
Times == {1, 2}

\* ----------------------------------------------------------- Option, maps

None == <<>>

Some(x) == <<x>>

IsSome(o) == o # <<>>

Range(s) == {s[i] : i \in DOMAIN s}

EmptyMap == [k \in {} |-> 0]

MapInsert(m, k, v) == [x \in (DOMAIN m) \cup {k} |-> IF x = k THEN v ELSE m[x]]

MapRetain(m, keep) == [x \in keep |-> m[x]]

\* ---------------------------------------------------------------- strings

\* The UTF-8 bytes of the strings the model uses.
Bytes(s) ==
    CASE s = ""      -> <<>>
      [] s = " "     -> <<32>>
      [] s = "t"     -> <<116>>
      [] s = "u"     -> <<117>>
      [] s = "id"    -> <<105, 100>>
      [] s = "v"     -> <<118>>
      [] s = "zz"    -> <<122, 122>>
      [] s = "*"     -> <<42>>
      [] s = "1"     -> <<49>>
      [] s = "2"     -> <<50>>
      [] s = "x"     -> <<120>>
      [] s = "-1"    -> <<45, 49>>
      [] s = "1.0.0" -> <<49, 46, 48, 46, 48>>
      [] s = "10"    -> <<49, 48>>
      [] s = "+1"    -> <<43, 49>>
      [] s = " 1"    -> <<32, 49>>
      [] s = "-"     -> <<45>>
      [] s = "2147483647"  -> <<50, 49, 52, 55, 52, 56, 51, 54, 52, 55>>
      [] s = "2147483648"  -> <<50, 49, 52, 55, 52, 56, 51, 54, 52, 56>>
      [] s = "-2147483648" -> <<45, 50, 49, 52, 55, 52, 56, 51, 54, 52, 56>>

Strings ==
    {"", " ", "t", "u", "id", "v", "zz", "*", "1", "2", "x", "-1", "1.0.0",
     "10", "+1", " 1", "-", "2147483647", "2147483648", "-2147483648"}

\* char::is_whitespace on the bytes above: space, tab, newline, carriage return.
IsWhitespace(b) == b \in {9, 10, 11, 12, 13, 32}

\* name.trim().is_empty()
TrimIsEmpty(s) == \A i \in DOMAIN Bytes(s) : IsWhitespace(Bytes(s)[i])

\* ------------------------------------------------------------- i32 parsing

I32Max == 2147483647

I32Min == (0 - I32Max) - 1

\* The result of a parse: a value, or none for a ParseIntError.
NoInt == [ok |-> FALSE, val |-> 0]

RECURSIVE DigitsValue(_, _, _)
\* Folds the decimal digits b[i..] of a number without a minus sign into acc
\* (checked_mul, checked_add): an error at a byte that is no digit or when the
\* value exceeds i32::MAX.
DigitsValue(b, i, acc) ==
    IF i > Len(b) THEN [ok |-> TRUE, val |-> acc]
    ELSE IF b[i] \in 48..57 /\ acc <= (I32Max - (b[i] - 48)) \div 10
    THEN DigitsValue(b, i + 1, acc * 10 + (b[i] - 48))
    ELSE NoInt

\* The largest n such that 0 - 10 * n - d >= i32::MIN.
NegativeRoom(d) == IF d = 0 THEN I32Max \div 10 ELSE (I32Max - (d - 1)) \div 10

RECURSIVE NegativeDigitsValue(_, _, _)
\* Folds the decimal digits b[i..] of a number with a minus sign into acc
\* (checked_mul, checked_sub): an error at a byte that is no digit or when the
\* value falls below i32::MIN.
NegativeDigitsValue(b, i, acc) ==
    IF i > Len(b) THEN [ok |-> TRUE, val |-> acc]
    ELSE IF b[i] \in 48..57 /\ acc >= 0 - NegativeRoom(b[i] - 48)
    THEN NegativeDigitsValue(b, i + 1, acc * 10 - (b[i] - 48))
    ELSE NoInt

\* <i32 as FromStr>::from_str on the bytes b: an optional sign, then at least
\* one digit.
ParseI32(b) ==
    IF Len(b) = 0 THEN NoInt
    ELSE IF b[1] = 45 THEN (IF Len(b) = 1 THEN NoInt ELSE NegativeDigitsValue(b, 2, 0))
    ELSE IF b[1] = 43 THEN (IF Len(b) = 1 THEN NoInt ELSE DigitsValue(b, 2, 0))
    ELSE DigitsValue(b, 1, 0)

\* A parse whose errors count as 1.
unwrap_or_one(r) == IF r.ok THEN r.val ELSE 1

\* Result::unwrap_or(0)
unwrap_or_zero(r) == IF r.ok THEN r.val ELSE 0

\* str::parse::<i32>().unwrap_or(0)
ParseI32OrZero(s) == unwrap_or_zero(ParseI32(Bytes(s)))

\* WhereCondition::evaluate
evaluate(cond, row) ==
    IF cond.column \in DOMAIN row
    THEN LET row_value == row[cond.column]
             row_num == ParseI32OrZero(row_value)
             condition_num == ParseI32OrZero(cond.value)
         IN  CASE cond.operator = "="  -> row_value = cond.value
               [] cond.operator = ">"  -> row_num > condition_num
               [] cond.operator = "<"  -> row_num < condition_num
               [] cond.operator = ">=" -> row_num >= condition_num
               [] cond.operator = "<=" -> row_num <= condition_num
               [] cond.operator \in {"!=", "<>"} -> row_value # cond.value
               [] OTHER -> FALSE
    ELSE FALSE

\* The closures the executor hands to update_rows and delete_rows: the WHERE
\* condition when there is one, otherwise a constant.
condition_fn(closure, row) ==
    IF IsSome(closure.condition) THEN evaluate(closure.condition[1], row)
    ELSE closure.otherwise

\* ---------------------------------------------------------- storage engine

\* StorageMetadata::default() at time now
StorageMetadata_default(now) ==
    [version |-> "1.0.0", created_at |-> now, last_modified |-> now,
     total_operations |-> 0, total_tables_created |-> 0, total_rows_inserted |-> 0,
     total_rows_updated |-> 0, total_rows_deleted |-> 0]

\* A timestamp update that does not count the operation.
update_timestamp_only(metadata, now) == [metadata EXCEPT !.last_modified = now]

\* StorageMetadata::update_timestamp at time now
update_timestamp(metadata, now) ==
    [metadata EXCEPT !.last_modified = now, !.total_operations = @ + 1]

\* StorageEngine::new() at time now
StorageEngine_new(now) == [tables |-> EmptyMap, metadata |-> StorageMetadata_default(now)]

Ok(engine, n) == [res |-> "Ok", engine |-> engine, n |-> n]

Err(kind, engine) == [res |-> kind, engine |-> engine, n |-> 0]

\* A duplicate check that finds nothing.
HasDuplicate_never(columns) == FALSE

\* create_table: whether inserting the columns into a HashSet meets one twice.
HasDuplicate(columns) ==
    \E i, j \in DOMAIN columns : i < j /\ columns[i] = columns[j]

\* create_table without the validation of the primary key.
create_table_any_key(engine, name, columns, primary_key, now) ==
    IF TrimIsEmpty(name) THEN Err("InvalidTableName", engine)
    ELSE IF name \in DOMAIN engine.tables THEN Err("TableAlreadyExists", engine)
    ELSE IF columns = <<>> \/ HasDuplicate(columns) THEN Err("InvalidSchema", engine)
    ELSE Ok([tables |-> MapInsert(engine.tables, name,
                          [columns |-> columns, rows |-> EmptyMap,
                           primary_key |-> primary_key]),
             metadata |-> [update_timestamp(engine.metadata, now)
                             EXCEPT !.total_tables_created = @ + 1]], 0)

\* StorageEngine::create_table
create_table(engine, name, columns, primary_key, now) ==
    IF TrimIsEmpty(name) THEN Err("InvalidTableName", engine)
    ELSE IF name \in DOMAIN engine.tables THEN Err("TableAlreadyExists", engine)
    ELSE IF columns = <<>> THEN Err("InvalidSchema", engine)
    ELSE IF HasDuplicate(columns) THEN Err("InvalidSchema", engine)
    ELSE IF IsSome(primary_key) /\ primary_key[1] \notin Range(columns)
    THEN Err("InvalidSchema", engine)
    ELSE Ok([tables |-> MapInsert(engine.tables, name,
                          [columns |-> columns, rows |-> EmptyMap,
                           primary_key |-> primary_key]),
             metadata |-> [update_timestamp(engine.metadata, now)
                             EXCEPT !.total_tables_created = @ + 1]], 0)

\* validate_row_data accepting every row.
validate_row_data_unchecked(row, table) == TRUE

\* StorageEngine::validate_row_data
validate_row_data(row, table) == \A column \in DOMAIN row : column \in Range(table.columns)

\* The row id insert_row gives the new row: the current row count.
next_row_id(table) == Cardinality(DOMAIN table.rows)

\* insert_row without the scan for an existing primary-key value.
insert_row_unscanned(engine, table_name, row, now) ==
    IF table_name \notin DOMAIN engine.tables THEN Err("TableNotFound", engine)
    ELSE LET table == engine.tables[table_name]
             pk == table.primary_key
         IN  IF ~validate_row_data(row, table) THEN Err("ColumnNotFound", engine)
             ELSE IF IsSome(pk) /\ pk[1] \notin DOMAIN row
             THEN Err("MissingPrimaryKey", engine)
             ELSE Ok([tables |-> [engine.tables EXCEPT ![table_name].rows =
                                     MapInsert(@, next_row_id(table), row)],
                      metadata |-> [update_timestamp(engine.metadata, now)
                                      EXCEPT !.total_rows_inserted = @ + 1]], 1)

\* insert_row looking at the primary key before it validates the columns.
insert_row_key_first(engine, table_name, row, now) ==
    IF table_name \notin DOMAIN engine.tables THEN Err("TableNotFound", engine)
    ELSE LET table == engine.tables[table_name]
             pk == table.primary_key
         IN  IF IsSome(pk) /\ pk[1] \notin DOMAIN row
             THEN Err("MissingPrimaryKey", engine)
             ELSE IF IsSome(pk) /\ \E id \in DOMAIN table.rows :
                                      /\ pk[1] \in DOMAIN table.rows[id]
                                      /\ table.rows[id][pk[1]] = row[pk[1]]
             THEN Err("PrimaryKeyViolation", engine)
             ELSE IF ~validate_row_data(row, table) THEN Err("ColumnNotFound", engine)
             ELSE Ok([tables |-> [engine.tables EXCEPT ![table_name].rows =
                                     MapInsert(@, next_row_id(table), row)],
                      metadata |-> [update_timestamp(engine.metadata, now)
                                      EXCEPT !.total_rows_inserted = @ + 1]], 1)

\* StorageEngine::insert_row
insert_row(engine, table_name, row, now) ==
    IF table_name \notin DOMAIN engine.tables THEN Err("TableNotFound", engine)
    ELSE LET table == engine.tables[table_name]
             pk == table.primary_key
         IN  IF ~validate_row_data(row, table) THEN Err("ColumnNotFound", engine)
             ELSE IF IsSome(pk) /\ pk[1] \notin DOMAIN row
             THEN Err("MissingPrimaryKey", engine)
             ELSE IF IsSome(pk) /\ \E id \in DOMAIN table.rows :
                                      /\ pk[1] \in DOMAIN table.rows[id]
                                      /\ table.rows[id][pk[1]] = row[pk[1]]
             THEN Err("PrimaryKeyViolation", engine)
             ELSE Ok([tables |-> [engine.tables EXCEPT ![table_name].rows =
                                     MapInsert(@, next_row_id(table), row)],
                      metadata |-> [update_timestamp(engine.metadata, now)
                                      EXCEPT !.total_rows_inserted = @ + 1]], 1)

\* Assignments that blank a column which already holds the assigned value.
apply_updates_toggling(row, updates) ==
    [c \in (DOMAIN row) \cup (DOMAIN updates) |->
        IF c \in DOMAIN updates
        THEN IF c \in DOMAIN row /\ row[c] = updates[c] THEN "" ELSE updates[c]
        ELSE row[c]]

\* The row after the assignments of `updates` have been inserted into it.
apply_updates(row, updates) ==
    [c \in (DOMAIN row) \cup (DOMAIN updates) |->
        IF c \in DOMAIN updates THEN updates[c] ELSE row[c]]

\* update_rows comparing the new key with every row, selected or not.
update_rows_strict(engine, table_name, updates, closure, now) ==
    IF table_name \notin DOMAIN engine.tables THEN Err("TableNotFound", engine)
    ELSE LET table == engine.tables[table_name]
             pk == table.primary_key
             matched == {id \in DOMAIN table.rows : condition_fn(closure, table.rows[id])}
             updated_count == Cardinality(matched)
         IN  IF \E column \in DOMAIN updates : column \notin Range(table.columns)
             THEN Err("ColumnNotFound", engine)
             ELSE IF /\ IsSome(pk)
                     /\ pk[1] \in DOMAIN updates
                     /\ \E id \in DOMAIN table.rows :
                           /\ pk[1] \in DOMAIN table.rows[id]
                           /\ table.rows[id][pk[1]] = updates[pk[1]]
             THEN Err("PrimaryKeyViolation", engine)
             ELSE Ok([tables |-> [engine.tables EXCEPT ![table_name].rows =
                                     [id \in DOMAIN @ |->
                                        IF id \in matched
                                        THEN apply_updates(@[id], updates)
                                        ELSE @[id]]],
                      metadata |-> IF updated_count > 0
                                   THEN [update_timestamp(engine.metadata, now)
                                           EXCEPT !.total_rows_updated = @ + updated_count]
                                   ELSE engine.metadata], updated_count)

\* StorageEngine::update_rows
update_rows(engine, table_name, updates, closure, now) ==
    IF table_name \notin DOMAIN engine.tables THEN Err("TableNotFound", engine)
    ELSE LET table == engine.tables[table_name]
             pk == table.primary_key
             matched == {id \in DOMAIN table.rows : condition_fn(closure, table.rows[id])}
             updated_count == Cardinality(matched)
         IN  IF \E column \in DOMAIN updates : column \notin Range(table.columns)
             THEN Err("ColumnNotFound", engine)
             ELSE IF /\ IsSome(pk)
                     /\ pk[1] \in DOMAIN updates
                     /\ \E id \in (DOMAIN table.rows) \ matched :
                           /\ pk[1] \in DOMAIN table.rows[id]
                           /\ table.rows[id][pk[1]] = updates[pk[1]]
             THEN Err("PrimaryKeyViolation", engine)
             ELSE Ok([tables |-> [engine.tables EXCEPT ![table_name].rows =
                                     [id \in DOMAIN @ |->
                                        IF id \in matched
                                        THEN apply_updates(@[id], updates)
                                        ELSE @[id]]],
                      metadata |-> IF updated_count > 0
                                   THEN [update_timestamp(engine.metadata, now)
                                           EXCEPT !.total_rows_updated = @ + updated_count]
                                   ELSE engine.metadata], updated_count)

\* delete_rows emptying the table as soon as the predicate holds of a row.
delete_rows_clearing(engine, table_name, closure, now) ==
    IF table_name \notin DOMAIN engine.tables THEN Err("TableNotFound", engine)
    ELSE LET table == engine.tables[table_name]
             kept == {id \in DOMAIN table.rows : ~condition_fn(closure, table.rows[id])}
             deleted_count == Cardinality(DOMAIN table.rows) - Cardinality(kept)
         IN  Ok([tables |-> [engine.tables EXCEPT ![table_name].rows =
                                IF deleted_count > 0 THEN EmptyMap ELSE @],
                 metadata |-> IF deleted_count > 0
                              THEN [update_timestamp(engine.metadata, now)
                                      EXCEPT !.total_rows_deleted = @ + deleted_count]
                              ELSE engine.metadata], deleted_count)

\* StorageEngine::delete_rows
delete_rows(engine, table_name, closure, now) ==
    IF table_name \notin DOMAIN engine.tables THEN Err("TableNotFound", engine)
    ELSE LET table == engine.tables[table_name]
             kept == {id \in DOMAIN table.rows : ~condition_fn(closure, table.rows[id])}
             deleted_count == Cardinality(DOMAIN table.rows) - Cardinality(kept)
         IN  Ok([tables |-> [engine.tables EXCEPT ![table_name].rows = MapRetain(@, kept)],
                 metadata |-> IF deleted_count > 0
                              THEN [update_timestamp(engine.metadata, now)
                                      EXCEPT !.total_rows_deleted = @ + deleted_count]
                              ELSE engine.metadata], deleted_count)

\* drop_table taking the dropped table back out of total_tables_created.
drop_table_uncounting(engine, table_name, now) ==
    IF table_name \in DOMAIN engine.tables
    THEN Ok([tables |-> MapRetain(engine.tables, (DOMAIN engine.tables) \ {table_name}),
             metadata |-> [update_timestamp(engine.metadata, now)
                             EXCEPT !.total_tables_created = @ - 1]], 0)
    ELSE Err("TableNotFound", engine)

\* StorageEngine::drop_table
drop_table(engine, table_name, now) ==
    IF table_name \in DOMAIN engine.tables
    THEN Ok([tables |-> MapRetain(engine.tables, (DOMAIN engine.tables) \ {table_name}),
             metadata |-> update_timestamp(engine.metadata, now)], 0)
    ELSE Err("TableNotFound", engine)

\* ------------------------------------------------------- snapshot encoding
\* bincode's encoding of the engine: every integer (a length, a row id, a
\* counter, an Option tag) is one fixed-width cell, a string is its length
\* followed by its bytes, a map or vector is its length followed by its
\* entries, a struct is its fields in order.

RECURSIVE SetToSeq(_)
SetToSeq(S) ==
    IF S = {} THEN <<>>
    ELSE LET x == CHOOSE y \in S : TRUE IN <<x>> \o SetToSeq(S \ {x})

Reverse(s) == [i \in 1..Len(s) |-> s[Len(s) + 1 - i]]

\* HashMap iteration order is unspecified: the seed selects one of two orders.
HashSeeds == {0, 1}

iter(S, seed) == IF seed = 0 THEN SetToSeq(S) ELSE Reverse(SetToSeq(S))

RECURSIVE Flatten(_)
Flatten(ss) == IF ss = <<>> THEN <<>> ELSE Head(ss) \o Flatten(Tail(ss))

EncString(s) == <<Len(Bytes(s))>> \o Bytes(s)

EncOption(o) == IF IsSome(o) THEN <<1>> \o EncString(o[1]) ELSE <<0>>

EncVec(v) == <<Len(v)>> \o Flatten([i \in DOMAIN v |-> EncString(v[i])])

\* Row { data: HashMap<String, String> }
EncRow(row, seed) ==
    LET keys == iter(DOMAIN row, seed)
    IN  <<Len(keys)>> \o
        Flatten([i \in DOMAIN keys |-> EncString(keys[i]) \o EncString(row[keys[i]])])

\* HashMap<usize, Row>
EncRows(rows, seed) ==
    LET ids == iter(DOMAIN rows, seed)
    IN  <<Len(ids)>> \o
        Flatten([i \in DOMAIN ids |-> <<ids[i]>> \o EncRow(rows[ids[i]], seed)])

\* Table { columns, rows, primary_key }
EncTable(table, seed) ==
    EncVec(table.columns) \o EncRows(table.rows, seed) \o EncOption(table.primary_key)

\* HashMap<String, Table>
EncTables(tables, seed) ==
    LET names == iter(DOMAIN tables, seed)
    IN  <<Len(names)>> \o
        Flatten([i \in DOMAIN names |->
                    EncString(names[i]) \o EncTable(tables[names[i]], seed)])

EncMetadata(metadata) ==
    EncString(metadata.version) \o
    <<metadata.created_at, metadata.last_modified, metadata.total_operations,
      metadata.total_tables_created, metadata.total_rows_inserted,
      metadata.total_rows_updated, metadata.total_rows_deleted>>

\* StorageEngine::serialize, with the map iteration order of `seed`
serialize(engine, seed) == EncTables(engine.tables, seed) \o EncMetadata(engine.metadata)

\* ------------------------------------------------------- snapshot decoding
\* Each decoder reads at position pos of buf and returns the value and the
\* position after it, or ok = FALSE (unexpected end of input, invalid tag,
\* invalid string).

DecFail == [ok |-> FALSE, val |-> <<>>, pos |-> 0]

DecOk(val, pos) == [ok |-> TRUE, val |-> val, pos |-> pos]

DecInt(buf, pos) == IF pos <= Len(buf) THEN DecOk(buf[pos], pos + 1) ELSE DecFail

\* The ? operator on a decoder's result: go on with the value read, or fail.
Then(r, F(_)) == IF r.ok THEN F(r) ELSE DecFail

\* The string with the given bytes, read up to position pos.
StringOf(bytes, pos) ==
    IF \E s \in Strings : Bytes(s) = bytes
    THEN DecOk(CHOOSE s \in Strings : Bytes(s) = bytes, pos)
    ELSE DecFail

DecString(buf, pos) ==
    Then(DecInt(buf, pos),
         LAMBDA n : IF n.pos + n.val - 1 > Len(buf) THEN DecFail
                    ELSE StringOf(SubSeq(buf, n.pos, n.pos + n.val - 1), n.pos + n.val))

DecOption(buf, pos) ==
    Then(DecInt(buf, pos),
         LAMBDA tag : CASE tag.val = 0 -> DecOk(None, tag.pos)
                        [] tag.val = 1 -> Then(DecString(buf, tag.pos),
                                               LAMBDA s : DecOk(Some(s.val), s.pos))
                        [] OTHER -> DecFail)

RECURSIVE DecVecItems(_, _, _, _)
DecVecItems(buf, pos, n, acc) ==
    IF n = 0 THEN DecOk(acc, pos)
    ELSE Then(DecString(buf, pos),
              LAMBDA s : DecVecItems(buf, s.pos, n - 1, Append(acc, s.val)))

DecVec(buf, pos) ==
    Then(DecInt(buf, pos), LAMBDA n : DecVecItems(buf, n.pos, n.val, <<>>))

RECURSIVE DecRowEntries(_, _, _, _)
DecRowEntries(buf, pos, n, acc) ==
    IF n = 0 THEN DecOk(acc, pos)
    ELSE Then(DecString(buf, pos), LAMBDA k :
         Then(DecString(buf, k.pos), LAMBDA v :
              DecRowEntries(buf, v.pos, n - 1, MapInsert(acc, k.val, v.val))))

DecRow(buf, pos) ==
    Then(DecInt(buf, pos), LAMBDA n : DecRowEntries(buf, n.pos, n.val, EmptyMap))

\* Rows renumbered densely as they are read, the stored row id ignored.
DecRowsInsertDense(acc, id, row) == MapInsert(acc, Cardinality(DOMAIN acc), row)

\* The rows map after one more (row id, row) entry has been read.
DecRowsInsert(acc, id, row) == MapInsert(acc, id, row)

RECURSIVE DecRowsEntries(_, _, _, _)
DecRowsEntries(buf, pos, n, acc) ==
    IF n = 0 THEN DecOk(acc, pos)
    ELSE Then(DecInt(buf, pos), LAMBDA id :
         Then(DecRow(buf, id.pos), LAMBDA row :
              DecRowsEntries(buf, row.pos, n - 1, DecRowsInsert(acc, id.val, row.val))))

DecRows(buf, pos) ==
    Then(DecInt(buf, pos), LAMBDA n : DecRowsEntries(buf, n.pos, n.val, EmptyMap))

DecTable(buf, pos) ==
    Then(DecVec(buf, pos), LAMBDA columns :
    Then(DecRows(buf, columns.pos), LAMBDA rows :
    Then(DecOption(buf, rows.pos), LAMBDA primary_key :
         DecOk([columns |-> columns.val, rows |-> rows.val,
                primary_key |-> primary_key.val], primary_key.pos))))

RECURSIVE DecTablesEntries(_, _, _, _)
DecTablesEntries(buf, pos, n, acc) ==
    IF n = 0 THEN DecOk(acc, pos)
    ELSE Then(DecString(buf, pos), LAMBDA name :
         Then(DecTable(buf, name.pos), LAMBDA table :
              DecTablesEntries(buf, table.pos, n - 1, MapInsert(acc, name.val, table.val))))

DecTables(buf, pos) ==
    Then(DecInt(buf, pos), LAMBDA n : DecTablesEntries(buf, n.pos, n.val, EmptyMap))

\* The seven integers after the version string.
DecCounters(buf, version, p) ==
    IF p + 6 > Len(buf) THEN DecFail
    ELSE DecOk([version |-> version, created_at |-> buf[p],
                last_modified |-> buf[p + 1], total_operations |-> buf[p + 2],
                total_tables_created |-> buf[p + 3],
                total_rows_inserted |-> buf[p + 4],
                total_rows_updated |-> buf[p + 5],
                total_rows_deleted |-> buf[p + 6]], p + 7)

DecMetadata(buf, pos) ==
    Then(DecString(buf, pos), LAMBDA version : DecCounters(buf, version.val, version.pos))

\* The engine of a decoded (tables, metadata) pair, None when decoding failed.
EngineOf(r) == IF r.ok THEN Some(r.val) ELSE None

\* StorageEngine::deserialize: Some(engine), or None for an Err. Bytes after
\* the metadata are not read.
deserialize(buf) ==
    EngineOf(Then(DecTables(buf, 1), LAMBDA tables :
             Then(DecMetadata(buf, tables.pos), LAMBDA metadata :
                  DecOk([tables |-> tables.val, metadata |-> metadata.val],
                        metadata.pos))))

\* -------------------------------------------------------------- FileSystem
\* The snapshot file is None (no file at the path) or Some(contents).
\* env is what the operating system answers during one call: now (the
\* clock), io (whether the file can be opened and written or read) and seed
\* (the iteration order of the maps).

\* FileSystem::save_to_file: open with truncate, serialize, write_all. A failed
\* write leaves a truncated file.
save_to_file(engine, disk, env) ==
    LET buffer == serialize(engine, env.seed)
    IN  CASE env.io = "ok"        -> [ok |-> TRUE, file |-> Some(buffer)]
          [] env.io = "open_err"  -> [ok |-> FALSE, file |-> disk]
          [] env.io = "write_err" ->
                [ok |-> FALSE, file |-> Some(SubSeq(buffer, 1, Len(buffer) \div 2))]

\* FileSystem::load_from_file: Some(engine) or None for an Err.
load_from_file(disk, env) ==
    IF env.io = "ok" /\ IsSome(disk) THEN deserialize(disk[1]) ELSE None

\* Result::unwrap_or_else on a loaded engine.
unwrap_or_else(loaded, otherwise) == IF IsSome(loaded) THEN loaded[1] ELSE otherwise

\* FileSystem::new that never looks at the file.
FileSystem_new_fresh(disk, env) == StorageEngine_new(env.now)

\* FileSystem::new: the engine it starts with.
FileSystem_new(disk, env) ==
    IF IsSome(disk)
    THEN unwrap_or_else(load_from_file(disk, env), StorageEngine_new(env.now))
    ELSE StorageEngine_new(env.now)

\* What a facade call returns and leaves behind; save tells whether
\* save_to_file ran and how it ended ("none", "ok", "err").
FsResult(res, engine, disk, save) ==
    [res |-> res, engine |-> engine, file |-> disk, save |-> save]

Saved(res, engine, saved) ==
    FsResult(res, engine, saved.file, IF saved.ok THEN "ok" ELSE "err")

\* A facade that puts the engine back as it was when the save fails.
SaveAfterRollback(r, engine, disk, saved, returned) ==
    IF r.res # "Ok" THEN FsResult(r.res, engine, disk, "none")
    ELSE Saved(IF returned /\ ~saved.ok THEN "IoError" ELSE "Ok",
               IF saved.ok THEN r.engine ELSE engine, saved)

\* save_to_file after a storage call that returned r: not called when r is an
\* error. A failed save is returned as IoError when the method returns its
\* result (returned), and only logged otherwise.
SaveAfter(r, engine, disk, saved, returned) ==
    IF r.res # "Ok" THEN FsResult(r.res, engine, disk, "none")
    ELSE Saved(IF returned /\ ~saved.ok THEN "IoError" ELSE "Ok", r.engine, saved)

\* A facade method that never saves.
SaveNever(r, engine, disk, saved) == FsResult(r.res, r.engine, disk, "none")

\* As SaveAfter, for a save that is skipped when the call changed no row.
SaveIfChanged(r, engine, disk, saved) ==
    IF r.res = "Ok" /\ r.n = 0 THEN FsResult("Ok", r.engine, disk, "none")
    ELSE SaveAfter(r, engine, disk, saved, FALSE)

\* A storage result r and the save of its engine.
WithSave(r, engine, disk, env, returned) ==
    SaveAfter(r, engine, disk, save_to_file(r.engine, disk, env), returned)

\* FileSystem::create_table; res is what StorageEngine::create_table returned
\* (the facade returns nothing and only logs a failed save).
FileSystem_create_table(engine, disk, name, columns, primary_key, env) ==
    WithSave(create_table(engine, name, columns, primary_key, env.now),
             engine, disk, env, FALSE)

\* FileSystem::insert_row; res is "Ok", "IoError" when the save failed, or the
\* storage error wrapped in the io::Error.
FileSystem_insert_row(engine, disk, table_name, row, env) ==
    WithSave(insert_row(engine, table_name, row, env.now), engine, disk, env, TRUE)

\* FileSystem::update_rows
FileSystem_update_rows(engine, disk, table_name, updates, closure, env) ==
    WithSave(update_rows(engine, table_name, updates, closure, env.now),
             engine, disk, env, TRUE)

\* The save FileSystem::delete_rows makes after a storage call that returned r.
DeleteSave(r, engine, disk, env) ==
    SaveIfChanged(r, engine, disk, save_to_file(r.engine, disk, env))

\* FileSystem::delete_rows; res is what StorageEngine::delete_rows returned
\* (the facade returns nothing and only logs a failed save).
FileSystem_delete_rows(engine, disk, table_name, closure, env) ==
    DeleteSave(delete_rows(engine, table_name, closure, env.now), engine, disk, env)

\* ---------------------------------------------------------------- executor
\* A statement is [type, table, projection, columns, values, assignments,
\* condition]; the fields a statement kind does not have are empty.

\* res is what execute returns (Ok or the ExecutionError), storage the result
\* of the storage layer behind it, rows the rows of an Ok.
ExecResult(res, rows, fs) ==
    [res |-> res, storage |-> fs.res, rows |-> rows, engine |-> fs.engine,
     file |-> fs.file, save |-> fs.save]

\* A projection that copies the stored row whatever the column list.
project_verbatim(projection, row) == row

\* The row a SELECT returns for a stored row.
project(projection, row) ==
    IF Len(projection) = 1 /\ projection[1] = "*" THEN row
    ELSE [c \in Range(projection) |-> IF c \in DOMAIN row THEN row[c] ELSE ""]

\* QueryExecutor::execute_select
execute_select(engine, disk, projection, table, condition, env) ==
    IF table \notin DOMAIN engine.tables
    THEN ExecResult("TableNotFound", <<>>, FsResult("TableNotFound", engine, disk, "none"))
    ELSE LET rows == engine.tables[table].rows
             ids == iter({id \in DOMAIN rows :
                            IsSome(condition) => evaluate(condition[1], rows[id])},
                         env.seed)
         IN  ExecResult("Ok", [i \in DOMAIN ids |-> project(projection, rows[ids[i]])],
                        FsResult("Ok", engine, disk, "none"))

\* A map in which the first value inserted under a key stays.
zip_map_first(keys, vals) ==
    LET n == IF Len(keys) < Len(vals) THEN Len(keys) ELSE Len(vals)
        firstAt(k) == CHOOSE i \in 1..n : keys[i] = k /\ \A j \in 1..(i - 1) : keys[j] # k
    IN  [k \in {keys[i] : i \in 1..n} |-> vals[firstAt(k)]]

\* HashMap built by inserting keys[i] -> vals[i] in order while both exist.
zip_map(keys, vals) ==
    LET n == IF Len(keys) < Len(vals) THEN Len(keys) ELSE Len(vals)
        lastAt(k) == CHOOSE i \in 1..n : keys[i] = k /\ \A j \in (i + 1)..n : keys[j] # k
    IN  [k \in {keys[i] : i \in 1..n} |-> vals[lastAt(k)]]

\* The row execute_insert builds from the column list and the values.
insert_row_data(engine, table, columns, values) ==
    IF columns = <<>>
    THEN IF table \in DOMAIN engine.tables
         THEN zip_map(engine.tables[table].columns, values)
         ELSE EmptyMap
    ELSE zip_map(columns, values)

\* Result::map_err on what a facade call returned, for a statement that
\* returns no rows.
map_err(fs, error) == ExecResult(IF fs.res = "Ok" THEN "Ok" ELSE error, <<>>, fs)

\* QueryExecutor::execute_insert
execute_insert(engine, disk, table, columns, values, env) ==
    map_err(FileSystem_insert_row(engine, disk, table,
                                  insert_row_data(engine, table, columns, values), env),
            "InsertFailed")

\* The map execute_update collects the assignments into.
update_map(assignments) ==
    zip_map([i \in DOMAIN assignments |-> assignments[i][1]],
            [i \in DOMAIN assignments |-> assignments[i][2]])

\* execute_update with the closure of execute_delete: no row without a WHERE.
execute_update_guarded(engine, disk, table, assignments, condition, env) ==
    map_err(FileSystem_update_rows(engine, disk, table, update_map(assignments),
                                   [condition |-> condition, otherwise |-> FALSE], env),
            "UpdateFailed")

\* QueryExecutor::execute_update
execute_update(engine, disk, table, assignments, condition, env) ==
    map_err(FileSystem_update_rows(engine, disk, table, update_map(assignments),
                                   [condition |-> condition, otherwise |-> TRUE], env),
            "UpdateFailed")

\* execute_delete with the closure of execute_update: every row without a WHERE.
execute_delete_unguarded(engine, disk, table, condition, env) ==
    ExecResult("Ok", <<>>,
               FileSystem_delete_rows(engine, disk, table,
                                      [condition |-> condition, otherwise |-> TRUE], env))

\* QueryExecutor::execute_delete
execute_delete(engine, disk, table, condition, env) ==
    ExecResult("Ok", <<>>,
               FileSystem_delete_rows(engine, disk, table,
                                      [condition |-> condition, otherwise |-> FALSE], env))

\* QueryExecutor::execute
execute(engine, disk, query, env) ==
    CASE query.type = "Select" ->
            execute_select(engine, disk, query.projection, query.table, query.condition, env)
      [] query.type = "Delete" ->
            execute_delete(engine, disk, query.table, query.condition, env)
      [] query.type = "Insert" ->
            execute_insert(engine, disk, query.table, query.columns, query.values, env)
      [] query.type = "Update" ->
            execute_update(engine, disk, query.table, query.assignments, query.condition, env)
      [] OTHER -> ExecResult("InvalidQuery", <<>>,
                             FsResult("InvalidQuery", engine, disk, "none"))

\* ------------------------------------------------------------------ inputs

TableNames == {"t", "u"}

Values == {"1", "2"}

IoOutcomes == {"ok", "open_err", "write_err"}

Envs == [now : Times, io : IoOutcomes, seed : HashSeeds]

\* create_table calls: the two tables of the model and one call per rejection.
CreateInputs ==
    {[name |-> "t", columns |-> <<"id", "v">>, primary_key |-> Some("id")],
     [name |-> "u", columns |-> <<"v">>, primary_key |-> None],
     [name |-> " ", columns |-> <<"v">>, primary_key |-> None],
     [name |-> "u", columns |-> <<>>, primary_key |-> None],
     [name |-> "u", columns |-> <<"v", "v">>, primary_key |-> None],
     [name |-> "u", columns |-> <<"v">>, primary_key |-> Some("id")]}

\* Rows handed to insert_row: every row over the columns id and v, and two
\* rows with a column no table has.
Rows ==
    UNION {[S -> Values] : S \in SUBSET {"id", "v"}}
    \cup {[c \in {"zz"} |-> "1"], [c \in {"id", "zz"} |-> "1"]}

Condition(column, operator, value) ==
    Some([column |-> column, operator |-> operator, value |-> value])

\* WHERE clauses: none, one row by its key, rows by a value, every row that has v.
Conditions ==
    {None, Condition("id", "=", "1"), Condition("id", "=", "2"),
     Condition("v", "=", "1"), Condition("v", ">=", "1")}

\* The closures of execute_update (otherwise TRUE) and execute_delete (FALSE).
UpdateClosures == {[condition |-> c, otherwise |-> TRUE] : c \in Conditions}

DeleteClosures == {[condition |-> c, otherwise |-> FALSE] : c \in Conditions}

\* SET lists: a plain column, the primary key, an unknown column, a column
\* assigned twice.
Assignments ==
    {<<<<"v", "1">>>>, <<<<"id", "2">>>>, <<<<"zz", "1">>>>,
     <<<<"v", "1">>, <<"v", "2">>>>}

Statement(type, table, projection, columns, values, assignments, condition) ==
    [type |-> type, table |-> table, projection |-> projection, columns |-> columns,
     values |-> values, assignments |-> assignments, condition |-> condition]

SelectStatements ==
    {Statement("Select", t, p, <<>>, <<>>, <<>>, c) :
        t \in TableNames, p \in {<<"*">>, <<"v">>}, c \in Conditions}

\* INSERT column lists and value lists: without columns, every value list of
\* length 0..2; with columns, a known and an unknown column.
InsertShapes ==
    {<<<<>>, vals>> : vals \in {<<>>} \cup {<<a>> : a \in Values} \cup (Values \X Values)}
    \cup {<<<<"v">>, <<"1">>>>, <<<<"zz">>, <<"1">>>>}

InsertStatements ==
    {Statement("Insert", t, <<>>, shape[1], shape[2], <<>>, None) :
        t \in TableNames, shape \in InsertShapes}

UpdateStatements ==
    {Statement("Update", t, <<>>, <<>>, <<>>, a, c) :
        t \in TableNames, a \in Assignments, c \in Conditions}

DeleteStatements ==
    {Statement("Delete", t, <<>>, <<>>, <<>>, <<>>, c) :
        t \in TableNames, c \in Conditions}

Statements == SelectStatements \cup InsertStatements \cup UpdateStatements \cup DeleteStatements

\* ------------------------------------------------------------ state machine

\* A call and what it returned: res is the caller-visible result, storage the
\* result of the storage layer behind it, where whether a WHERE condition (a
\* closure with a condition) was given.
Last(op, table, res, storage, where) ==
    [op |-> op, table |-> table, res |-> res, storage |-> storage, where |-> where]

Idle == Last("idle", "", "", "", FALSE)

\* main: FileSystem::new on a path that holds no file. The first reading of
\* the clock is the origin of time.
Init ==
    /\ file = None
    /\ faults = 0
    /\ \E env \in Envs : env.now = 1 /\ storage_engine = FileSystem_new(None, env)
    /\ last = Idle

WithinBounds == storage_engine.metadata.total_operations < MaxOps

RoomFor(table_name) ==
    table_name \in DOMAIN storage_engine.tables =>
        Cardinality(DOMAIN storage_engine.tables[table_name].rows) < MaxRows

\* The caller takes the result and is ready for its next call.
Return ==
    /\ last # Idle
    /\ last' = Idle
    /\ UNCHANGED <<storage_engine, file, faults>>

\* ---- calls on the StorageEngine itself

Called(op, table, r, where) ==
    /\ storage_engine' = r.engine
    /\ last' = Last(op, table, r.res, r.res, where)
    /\ UNCHANGED <<file, faults>>

CreateTable ==
    /\ last = Idle /\ WithinBounds
    /\ \E c \in CreateInputs, now \in Times :
          Called("create_table", c.name,
                 create_table(storage_engine, c.name, c.columns, c.primary_key, now), FALSE)

InsertRow ==
    /\ last = Idle /\ WithinBounds
    /\ \E table_name \in TableNames, row \in Rows, now \in Times :
          /\ RoomFor(table_name)
          /\ Called("insert_row", table_name,
                    insert_row(storage_engine, table_name, row, now), FALSE)

UpdateRows ==
    /\ last = Idle /\ WithinBounds
    /\ \E table_name \in TableNames, a \in Assignments, closure \in UpdateClosures,
          now \in Times :
          Called("update_rows", table_name,
                 update_rows(storage_engine, table_name, update_map(a), closure, now),
                 IsSome(closure.condition))

DeleteRows ==
    /\ last = Idle /\ WithinBounds
    /\ \E table_name \in TableNames, closure \in DeleteClosures \cup UpdateClosures,
          now \in Times :
          Called("delete_rows", table_name,
                 delete_rows(storage_engine, table_name, closure, now),
                 IsSome(closure.condition))

DropTable ==
    /\ last = Idle /\ WithinBounds
    /\ \E table_name \in TableNames, now \in Times :
          Called("drop_table", table_name, drop_table(storage_engine, table_name, now), FALSE)

Next ==
    \/ CreateTable
    \/ InsertRow
    \/ UpdateRows
    \/ DeleteRows
    \/ DropTable
    \/ Return

\* The storage engine under direct calls.
Spec == Init /\ [][Next]_vars

\* ---- statements through the executor and the FileSystem facade

\* Under SpecFs the clock stands still and the hash order is the same in
\* every call (Spec explores the clock; the snapshot claims quantify over the
\* hash orders). The file system is only consulted when save_to_file runs,
\* and fails at most MaxFaults times.
Consulted(r, env) ==
    /\ env.now = 1 /\ env.seed = 0
    /\ r.save = "none" => env.io = "ok"
    /\ r.save = "err" => faults < MaxFaults

Replied(op, table, r, where, env) ==
    /\ Consulted(r, env)
    /\ storage_engine' = r.engine
    /\ file' = r.file
    /\ faults' = IF r.save = "err" THEN faults + 1 ELSE faults
    /\ last' = Last(op, table, r.res, r.storage, where)

\* One statement through QueryExecutor::execute.
Run(query, env) ==
    Replied(query.type, query.table, execute(storage_engine, file, query, env),
            IsSome(query.condition), env)

ExecuteSelect ==
    /\ last = Idle
    /\ \E query \in SelectStatements, env \in Envs : Run(query, env)

ExecuteInsert ==
    /\ last = Idle /\ WithinBounds
    /\ \E query \in InsertStatements, env \in Envs :
          RoomFor(query.table) /\ Run(query, env)

ExecuteUpdate ==
    /\ last = Idle /\ WithinBounds
    /\ \E query \in UpdateStatements, env \in Envs : Run(query, env)

ExecuteDelete ==
    /\ last = Idle /\ WithinBounds
    /\ \E query \in DeleteStatements, env \in Envs : Run(query, env)

\* FileSystem::create_table, as main calls it.
FsCreateTable ==
    /\ last = Idle /\ WithinBounds
    /\ \E c \in CreateInputs, env \in Envs :
          LET r == FileSystem_create_table(storage_engine, file, c.name, c.columns,
                                           c.primary_key, env)
          IN  Replied("create_table", c.name,
                      [r EXCEPT !.res = "Ok"] @@ [storage |-> r.res], FALSE, env)

\* The process ends and a new one starts: FileSystem::new on the same path.
\* The read fails when the file exists and io is not "ok".
Reopen ==
    /\ last = Idle
    /\ \E env \in Envs :
          LET failed == IsSome(file) /\ env.io # "ok"
              loaded == IsSome(load_from_file(file, env))
          IN  /\ env.io \in {"ok", "open_err"} /\ env.now = 1 /\ env.seed = 0
              /\ IsSome(file) \/ env.io = "ok"
              /\ failed => faults < MaxFaults
              /\ storage_engine' = FileSystem_new(file, env)
              /\ faults' = IF failed THEN faults + 1 ELSE faults
              /\ last' = Last("new", "", "Ok",
                              IF loaded THEN "Loaded" ELSE "Fresh", FALSE)
              /\ UNCHANGED file

NextFs ==
    \/ FsCreateTable
    \/ ExecuteSelect
    \/ ExecuteInsert
    \/ ExecuteUpdate
    \/ ExecuteDelete
    \/ Reopen
    \/ Return

\* The database as the command loop drives it.
SpecFs == Init /\ [][NextFs]_vars

\* ---- Parser: the nom combinators over an input cut into pieces
\*
\* An input string is the sequence of its pieces: a keyword in one case, or
\* one character. No two pieces of letters spell a keyword together, so a
\* combinator sees a sequence of pieces as it sees the string they spell.

\* The keywords of the four statements, in upper case.
Keywords ==
    {"SELECT", "FROM", "WHERE", "DELETE", "UPDATE", "SET", "INSERT", "INTO",
     "VALUES"}

\* ASCII upper case of a piece, as tag_no_case compares it.
upper(piece) ==
    CASE piece = "select" -> "SELECT"
      [] piece = "from" -> "FROM"
      [] piece = "where" -> "WHERE"
      [] piece = "values" -> "VALUES"
      [] OTHER -> piece

\* char::is_alphanumeric, on pieces: the keywords, four of them in lower case
\* as well, and the names and the digits of the inputs.
Alphanumeric ==
    Keywords \cup {"select", "from", "where", "values"}
        \cup {"a", "t", "1", "id", "v", "2"}

\* The characters multispace0 and multispace1 take.
Multispace == {" ", "\t"}

\* char::is_whitespace, which str::trim strips: the form feed is one of them
\* and no multispace character.
Whitespace == Multispace \cup {"\f"}

Pieces ==
    Alphanumeric \cup Whitespace
        \cup {"*", ",", "=", "(", ")", "'", ">", "<", "!", ";"}

\* IResult: Ok((rest, val)) or Err(nom::Err::Error(_)).
POk(val, rest) == [ok |-> TRUE, val |-> val, rest |-> rest]
PErr == [ok |-> FALSE, val |-> <<>>, rest |-> <<>>]

\* The ? operator on an IResult.
and_then(r, F(_)) == IF r.ok THEN F(r) ELSE PErr

\* The number of leading pieces of the input that are in the class.
RECURSIVE span(_, _)
span(input, class) ==
    IF input # <<>> /\ Head(input) \in class
    THEN 1 + span(Tail(input), class)
    ELSE 0

\* The first n pieces as the value, when there are at least min of them.
take(input, n, min) ==
    IF n < min THEN PErr
    ELSE POk(SubSeq(input, 1, n), SubSeq(input, n + 1, Len(input)))

alphanumeric1(input) == take(input, span(input, Alphanumeric), 1)
multispace0(input) == take(input, span(input, Multispace), 0)
multispace1(input) == take(input, span(input, Multispace), 1)

\* tag and char: the input starts with the given pieces.
tag(t, input) ==
    IF Len(input) >= Len(t) /\ SubSeq(input, 1, Len(t)) = t
    THEN POk(t, SubSeq(input, Len(t) + 1, Len(input)))
    ELSE PErr

\* tag_no_case of a keyword.
tag_no_case(keyword, input) ==
    IF input # <<>> /\ upper(Head(input)) = keyword
    THEN POk(<<Head(input)>>, Tail(input))
    ELSE PErr

\* take_until("'"): the pieces before the first quote, which must exist.
take_until_quote(input) ==
    IF span(input, Pieces \ {"'"}) = Len(input) THEN PErr
    ELSE take(input, span(input, Pieces \ {"'"}), 0)

\* alt of two parsers on the same input.
alt(r1, r2) == IF r1.ok THEN r1 ELSE r2

\* opt: None and the input untouched where the parser fails.
opt(r, input) == IF r.ok THEN POk(<<r.val>>, r.rest) ELSE POk(<<>>, input)

identifier(input) == alphanumeric1(input)

quoted_string(input) ==
    and_then(tag(<<"'">>, input), LAMBDA open :
    and_then(take_until_quote(open.rest), LAMBDA body :
    and_then(tag(<<"'">>, body.rest), LAMBDA close :
        POk(body.val, close.rest))))

value(input) == alt(quoted_string(input), alphanumeric1(input))

\* delimited(multispace0, tag(t), multispace0)
spaced(t, input) ==
    and_then(multispace0(input), LAMBDA before :
    and_then(tag(t, before.rest), LAMBDA mark :
        multispace0(mark.rest)))

\* separated_pair(identifier, "=" between spaces, value)
assignment(input) ==
    and_then(identifier(input), LAMBDA col :
    and_then(spaced(<<"=">>, col.rest), LAMBDA eq :
    and_then(value(eq.rest), LAMBDA val :
        POk(<<col.val, val.val>>, val.rest))))

\* The element parser of a separated list.
element(kind, input) ==
    CASE kind = "identifier" -> identifier(input)
      [] kind = "value" -> value(input)
      [] kind = "assignment" -> assignment(input)

\* The match on Err(nom::Err::Error(_)) in separated_list0: the list so far.
unless(r, list, F(_)) == IF r.ok THEN F(r) ELSE list

\* separated_list0 after its first element: a separator that is not followed
\* by an element is left in the input.
RECURSIVE separated_more(_, _, _)
separated_more(kind, input, res) ==
    unless(spaced(<<",">>, input), POk(res, input), LAMBDA sep :
    unless(element(kind, sep.rest), POk(res, input), LAMBDA elem :
        separated_more(kind, elem.rest, Append(res, elem.val))))

\* separated_list0(delimited(multispace0, ",", multispace0), element)
separated_list0(kind, input) ==
    unless(element(kind, input), POk(<<>>, input), LAMBDA elem :
        separated_more(kind, elem.rest, <<elem.val>>))

projection_list(input) == separated_list0("identifier", input)

\* The operator alternatives with the one-character tags tried first.
operator_short_first(input) ==
    alt(tag(<<"=">>, input),
    alt(tag(<<">">>, input),
    alt(tag(<<"<">>, input),
    alt(tag(<<">", "=">>, input),
    alt(tag(<<"<", "=">>, input),
    alt(tag(<<"!", "=">>, input),
        tag(<<"<", ">">>, input)))))))

\* The comparison operators, the longer ones first.
operator(input) ==
    alt(tag(<<">", "=">>, input),
    alt(tag(<<"<", "=">>, input),
    alt(tag(<<"!", "=">>, input),
    alt(tag(<<"<", ">">>, input),
    alt(tag(<<"=">>, input),
    alt(tag(<<">">>, input),
        tag(<<"<">>, input)))))))

parse_where_condition(input) ==
    and_then(alphanumeric1(input), LAMBDA col :
    and_then(multispace0(col.rest), LAMBDA s1 :
    and_then(operator(s1.rest), LAMBDA op :
    and_then(multispace0(op.rest), LAMBDA s2 :
    and_then(value(s2.rest), LAMBDA val :
        POk([column |-> col.val, operator |-> op.val, value |-> val.val],
            val.rest))))))

\* opt(preceded(tuple((multispace1, tag_no_case("WHERE"), multispace1)),
\* parse_where_condition))
where_clause(input) ==
    opt(and_then(multispace1(input), LAMBDA s1 :
        and_then(tag_no_case("WHERE", s1.rest), LAMBDA kw :
        and_then(multispace1(kw.rest), LAMBDA s2 :
            parse_where_condition(s2.rest)))), input)

select_statement(input) ==
    and_then(tag_no_case("SELECT", input), LAMBDA kw :
    and_then(multispace1(kw.rest), LAMBDA s1 :
    and_then(alt(and_then(tag(<<"*">>, s1.rest), LAMBDA star :
                     POk(<<star.val>>, star.rest)),
                 projection_list(s1.rest)), LAMBDA proj :
    and_then(multispace1(proj.rest), LAMBDA s2 :
    and_then(tag_no_case("FROM", s2.rest), LAMBDA from :
    and_then(multispace1(from.rest), LAMBDA s3 :
    and_then(identifier(s3.rest), LAMBDA table :
    and_then(where_clause(table.rest), LAMBDA cond :
        POk([kind |-> "SelectStatement", projection |-> proj.val,
             table |-> table.val, condition |-> cond.val], cond.rest)))))))))

delete_statement(input) ==
    and_then(tag_no_case("DELETE", input), LAMBDA kw :
    and_then(multispace1(kw.rest), LAMBDA s1 :
    and_then(tag_no_case("FROM", s1.rest), LAMBDA from :
    and_then(multispace1(from.rest), LAMBDA s2 :
    and_then(identifier(s2.rest), LAMBDA table :
    and_then(where_clause(table.rest), LAMBDA cond :
        POk([kind |-> "DeleteStatement", table |-> table.val,
             condition |-> cond.val], cond.rest)))))))

update_statement(input) ==
    and_then(tag_no_case("UPDATE", input), LAMBDA kw :
    and_then(multispace1(kw.rest), LAMBDA s1 :
    and_then(identifier(s1.rest), LAMBDA table :
    and_then(multispace1(table.rest), LAMBDA s2 :
    and_then(tag_no_case("SET", s2.rest), LAMBDA set :
    and_then(multispace1(set.rest), LAMBDA s3 :
    and_then(separated_list0("assignment", s3.rest), LAMBDA assignments :
    and_then(where_clause(assignments.rest), LAMBDA cond :
        POk([kind |-> "UpdateStatement", table |-> table.val,
             assignments |-> assignments.val, condition |-> cond.val],
            cond.rest)))))))))

\* delimited(preceded(multispace0, '('), list of identifiers,
\* preceded(multispace0, ')'))
column_list(input) ==
    and_then(multispace0(input), LAMBDA s1 :
    and_then(tag(<<"(">>, s1.rest), LAMBDA open :
    and_then(separated_list0("identifier", open.rest), LAMBDA cols :
    and_then(multispace0(cols.rest), LAMBDA s2 :
    and_then(tag(<<")">>, s2.rest), LAMBDA close :
        POk(cols.val, close.rest))))))

\* delimited('(', list of values, ')')
value_list(input) ==
    and_then(tag(<<"(">>, input), LAMBDA open :
    and_then(separated_list0("value", open.rest), LAMBDA vals :
    and_then(tag(<<")">>, vals.rest), LAMBDA close :
        POk(vals.val, close.rest))))

insert_statement(input) ==
    and_then(tag_no_case("INSERT", input), LAMBDA kw :
    and_then(multispace1(kw.rest), LAMBDA s1 :
    and_then(tag_no_case("INTO", s1.rest), LAMBDA into :
    and_then(multispace1(into.rest), LAMBDA s2 :
    and_then(identifier(s2.rest), LAMBDA table :
    and_then(opt(column_list(table.rest), table.rest), LAMBDA columns :
    and_then(multispace1(columns.rest), LAMBDA s3 :
    and_then(tag_no_case("VALUES", s3.rest), LAMBDA vkw :
    and_then(multispace0(vkw.rest), LAMBDA s4 :
    and_then(value_list(s4.rest), LAMBDA vals :
        POk([kind |-> "InsertStatement", table |-> table.val,
             columns |-> IF columns.val = <<>> THEN <<>> ELSE columns.val[1],
             values |-> vals.val],
            vals.rest)))))))))))

\* str::trim: the input without its leading and trailing whitespace.
RECURSIVE trim_end(_)
trim_end(input) ==
    IF input # <<>> /\ input[Len(input)] \in Whitespace
    THEN trim_end(SubSeq(input, 1, Len(input) - 1))
    ELSE input

trim(input) == trim_end(SubSeq(input, span(input, Whitespace) + 1, Len(input)))

\* alt((select_parser, delete_parser, update_parser, insert_parser))
parsers(input) ==
    alt(select_statement(input),
    alt(delete_statement(input),
    alt(update_statement(input),
        insert_statement(input))))

\* Result<ASTNode, String>
ParseOk(ast) == [ok |-> TRUE, ast |-> ast, err |-> ""]
ParseErr(message) == [ok |-> FALSE, ast |-> <<>>, err |-> message]

\* A parse that hands out the statement whatever follows it.
matched_lenient(r) ==
    IF r.ok THEN ParseOk(r.val) ELSE ParseErr("Parse error")

\* The match of Parser::parse on what the statement parsers returned.
matched(r) ==
    IF r.ok
    THEN IF trim(r.rest) = <<>> THEN ParseOk(r.val)
         ELSE ParseErr("Unexpected input after query")
    ELSE ParseErr("Parse error")

\* Parser::parse
parse(input) == matched(parsers(trim(input)))

\* ---- WhereCondition::evaluate on its own

\* Values of a row and of a condition: numbers with and without a sign, at
\* and beyond the ends of the i32 range, and strings that are no numbers.
EvalStrings ==
    {"1", "2", "-1", "x", "", "10", "+1", " 1", "2147483647", "2147483648",
     "-2147483648"}

\* The operators parse_where_condition produces, and two it does not.
EvalOperators == {"=", "!=", "<>", ">", "<", ">=", "<=", "==", "LIKE"}

EvalConditions == [column : {"v"}, operator : EvalOperators, value : EvalStrings]

\* Rows that hold the column of the condition, and one that does not.
EvalRows == {[c \in {"v"} |-> s] : s \in EvalStrings} \cup {[c \in {"id"} |-> "1"]}

\* A call of evaluate on a condition and a row, and what it returned.
Evaluate ==
    /\ last = Idle
    /\ \E cond \in EvalConditions, row \in EvalRows :
          last' = [op |-> "evaluate", condition |-> cond, row |-> row,
                   res |-> evaluate(cond, row)]
    /\ UNCHANGED <<storage_engine, file, faults>>

NextEvaluate ==
    \/ Evaluate
    \/ Return

\* The predicate evaluation under every condition and row of the sets above.
SpecEvaluate == Init /\ [][NextEvaluate]_vars

\* ---- Parser::parse on its own

\* One well-formed query of each shape the grammar has.
Queries ==
    { <<"SELECT", " ", "*", " ", "FROM", " ", "t">>,
      <<"select", " ", "a", ",", " ", "t", " ", "from", " ", "t", " ",
        "where", " ", "a", "=", "1">>,
      <<"DELETE", " ", "FROM", " ", "t">>,
      <<"DELETE", " ", "FROM", " ", "t", " ", "WHERE", " ", "a", ">", "=",
        "'", "a", " ", "'">>,
      <<"UPDATE", " ", "t", " ", "SET", " ", "a", "=", "1">>,
      <<"UPDATE", " ", "t", " ", "SET", " ", "a", " ", "=", " ", "'", "1", "'",
        ",", "t", "=", "1", " ", "WHERE", " ", "a", "<", ">", "1">>,
      <<"INSERT", " ", "INTO", " ", "t", " ", "VALUES", " ", "(", "1", ",",
        "'", "a", "'", ")">>,
      <<"INSERT", " ", "INTO", " ", "t", "(", "a", ",", " ", "t", ")", " ",
        "values", "(", "1", ")">> }

\* A query as it is, between whitespace, followed by one more piece, and with
\* one piece dropped, replaced or put in.
Edits(q) ==
    {q, <<" ", "\f">> \o q \o <<"\t", "\f">>}
    \cup {q \o <<p>> : p \in Pieces}
    \cup {q \o <<" ", p>> : p \in Pieces}
    \cup {SubSeq(q, 1, i - 1) \o SubSeq(q, i + 1, Len(q)) : i \in 1..Len(q)}
    \cup {SubSeq(q, 1, i - 1) \o <<p>> \o SubSeq(q, i + 1, Len(q)) :
            i \in 1..Len(q), p \in Pieces}
    \cup {SubSeq(q, 1, i) \o <<p>> \o SubSeq(q, i + 1, Len(q)) :
            i \in 0..Len(q), p \in Pieces}

\* The inputs handed to Parser::parse.
ParseInputs == UNION {Edits(q) : q \in Queries} \cup {<<>>, <<" ">>}

\* A call of Parser::parse: the input, what the statement parsers returned on
\* the trimmed input, and the result.
Parse ==
    /\ last = Idle
    /\ \E input \in ParseInputs :
          last' = [op |-> "parse", input |-> input,
                   statement |-> parsers(trim(input)), res |-> parse(input)]
    /\ UNCHANGED <<storage_engine, file, faults>>

\* The characters operators are made of.
OperatorPieces == {">", "<", "=", "!"}

\* Runs of up to three operator characters.
OperatorTexts ==
    {<<>>} \cup UNION {[1..n -> OperatorPieces] : n \in 1..3}

\* The texts handed to parse_where_condition: a column, an operator text and
\* a value, with and without spaces between them.
WhereClauses ==
    {<<"a">> \o s1 \o text \o s2 \o val :
        s1 \in {<<>>, <<" ">>}, text \in OperatorTexts, s2 \in {<<>>, <<" ">>},
        val \in {<<"1">>, <<"'", "a", "'">>}}

\* A call of Parser::parse_where_condition on the text of a WHERE clause.
ParseWhereCondition ==
    /\ last = Idle
    /\ \E input \in WhereClauses :
          last' = [op |-> "parse_where_condition", input |-> input,
                   res |-> parse_where_condition(input)]
    /\ UNCHANGED <<storage_engine, file, faults>>

NextParse ==
    \/ Parse
    \/ ParseWhereCondition
    \/ Return

\* The parser under every input of the set above.
SpecParse == Init /\ [][NextParse]_vars

\* ------------------------------------------------------------------ planner
\* An AST is a statement as the executor takes it, or a standalone
\* identifier. Fractions (selectivity, cost) are counted in tenths.

\* QueryOptimizer::estimate_selectivity, in tenths.
estimate_selectivity(condition) ==
    CASE condition.operator = "=" -> 1
      [] condition.operator \in {">", "<"} -> 3
      [] condition.operator \in {">=", "<="} -> 4
      [] condition.operator \in {"!=", "<>"} -> 9
      [] OTHER -> 5

\* QueryOptimizer::optimize_where_clause
optimize_where_clause(plan) ==
    IF IsSome(plan.condition)
    THEN [plan EXCEPT !.execution_steps =
            Append(@, [step |-> "FilterRows", condition |-> plan.condition[1],
                       estimated_selectivity |-> estimate_selectivity(plan.condition[1])])]
    ELSE plan

\* QueryOptimizer::optimize_projection
optimize_projection(plan) ==
    IF IsSome(plan.projection)
       /\ ~(Len(plan.projection[1]) = 1 /\ plan.projection[1][1] = "*")
    THEN [plan EXCEPT !.execution_steps =
            Append(@, [step |-> "ProjectColumns", columns |-> plan.projection[1]])]
    ELSE plan

\* The sum of the contributions of the steps to the cost, in tenths.
RECURSIVE total_cost(_)
total_cost(steps) ==
    IF steps = <<>> THEN 0
    ELSE total_cost(Tail(steps))
         + (CASE Head(steps).step = "TableScan" -> Head(steps).estimated_rows
              [] Head(steps).step = "FilterRows" ->
                    100 * (10 - Head(steps).estimated_selectivity)
              [] Head(steps).step = "ProjectColumns" -> Len(Head(steps).columns) * 5
              [] Head(steps).step = "InsertRow" -> 500
              [] Head(steps).step = "UpdateRows" -> 750
              [] Head(steps).step = "DeleteRows" -> 250)

\* QueryOptimizer::estimate_cost
estimate_cost(plan) ==
    [plan EXCEPT !.estimated_cost = total_cost(plan.execution_steps)]

\* QueryOptimizer::optimize_plan; enable_optimizations is true from
\* QueryOptimizer::default and never assigned.
optimize_plan(plan) == estimate_cost(optimize_projection(optimize_where_clause(plan)))

\* The QueryPlan a match arm of QueryPlanner::plan builds.
QueryPlan(query_type, table, projection, condition, assignments, insert_data, step) ==
    [query_type |-> query_type, table |-> table, projection |-> projection,
     condition |-> condition, assignments |-> assignments,
     insert_data |-> insert_data, estimated_cost |-> 0, execution_steps |-> <<step>>]

\* QueryPlanner::plan before the optimizer runs.
unoptimized(ast) ==
    CASE ast.type = "Select" ->
            QueryPlan("Select", ast.table, Some(ast.projection), ast.condition, None, None,
                      [step |-> "TableScan", table |-> ast.table, estimated_rows |-> 1000])
      [] ast.type = "Insert" ->
            QueryPlan("Insert", ast.table, None, None, None,
                      Some(<<ast.columns, ast.values>>),
                      [step |-> "InsertRow", table |-> ast.table,
                       columns |-> ast.columns, values |-> ast.values])
      [] ast.type = "Update" ->
            QueryPlan("Update", ast.table, None, ast.condition, Some(ast.assignments), None,
                      [step |-> "UpdateRows", table |-> ast.table,
                       assignments |-> ast.assignments, condition |-> ast.condition])
      [] ast.type = "Delete" ->
            QueryPlan("Delete", ast.table, None, ast.condition, None, None,
                      [step |-> "DeleteRows", table |-> ast.table,
                       condition |-> ast.condition])

\* A planner whose optimizer is switched off.
QueryPlanner_plan_unoptimized(ast) ==
    IF ast.type = "Identifier"
    THEN [ok |-> FALSE, plan |-> <<>>, err |-> "InvalidQuery"]
    ELSE [ok |-> TRUE, plan |-> unoptimized(ast), err |-> ""]

\* QueryPlanner::plan
QueryPlanner_plan(ast) ==
    IF ast.type = "Identifier"
    THEN [ok |-> FALSE, plan |-> <<>>, err |-> "InvalidQuery"]
    ELSE [ok |-> TRUE, plan |-> optimize_plan(unoptimized(ast)), err |-> ""]

\* The columns validate_plan looks up, in the order it looks them up; the
\* wildcard of a projection is not looked up.
looked_up(plan) ==
    (IF IsSome(plan.projection)
     THEN SelectSeq(plan.projection[1], LAMBDA c : c # "*") ELSE <<>>)
    \o (IF IsSome(plan.condition) THEN <<plan.condition[1].column>> ELSE <<>>)
    \o (IF IsSome(plan.assignments)
        THEN [i \in DOMAIN plan.assignments[1] |-> plan.assignments[1][i][1]]
        ELSE <<>>)
    \o (IF IsSome(plan.insert_data) THEN plan.insert_data[1][1] ELSE <<>>)

\* validate_plan with the two failures of an INSERT in the other order.
validate_plan_count_first(plan, table_exists, columns) ==
    IF ~table_exists THEN "TableNotFound"
    ELSE IF IsSome(plan.insert_data) /\ plan.insert_data[1][1] # <<>>
            /\ Len(plan.insert_data[1][1]) # Len(plan.insert_data[1][2])
    THEN "InvalidQuery"
    ELSE IF \E i \in DOMAIN looked_up(plan) : looked_up(plan)[i] \notin Range(columns)
    THEN "ColumnNotFound"
    ELSE "Ok"

\* QueryPlanner::validate_plan: Ok or the PlanningError.
validate_plan(plan, table_exists, columns) ==
    IF ~table_exists THEN "TableNotFound"
    ELSE IF \E i \in DOMAIN looked_up(plan) : looked_up(plan)[i] \notin Range(columns)
    THEN "ColumnNotFound"
    ELSE IF IsSome(plan.insert_data) /\ plan.insert_data[1][1] # <<>>
            /\ Len(plan.insert_data[1][1]) # Len(plan.insert_data[1][2])
    THEN "InvalidQuery"
    ELSE "Ok"

\* The score analyze_query_complexity adds up.
complexity_score(plan) ==
    (CASE plan.query_type = "Select" -> 1
       [] plan.query_type = "Insert" -> 2
       [] plan.query_type = "Update" -> 3
       [] plan.query_type = "Delete" -> 2)
    + (IF IsSome(plan.condition) THEN 2 ELSE 0)
    + (IF IsSome(plan.projection) /\ Len(plan.projection[1]) > 5 THEN 1 ELSE 0)

\* A classifier whose Medium ends at 4.
bucket_narrow(score) ==
    CASE score \in 1..2 -> "Simple"
      [] score \in 3..4 -> "Medium"
      [] OTHER -> "Complex"

\* The match on the score.
bucket(score) ==
    CASE score \in 1..2 -> "Simple"
      [] score \in 3..5 -> "Medium"
      [] OTHER -> "Complex"

\* analyze_query_complexity
analyze_query_complexity(plan) == bucket(complexity_score(plan))

\* ---- QueryPlanner on its own

\* The ASTs handed to the planner: the statements of the executor; SELECTs
\* with no, two, an unknown and more than five columns and the wildcard
\* among columns, under further operators and an unknown WHERE column;
\* INSERTs whose column and value lists differ in length, with and without
\* an unknown column; and a standalone identifier.
PlanInputs ==
    Statements
    \cup {Statement("Select", "t", p, <<>>, <<>>, <<>>, c) :
            p \in {<<"*">>, <<>>, <<"id", "v">>, <<"*", "v">>, <<"zz">>,
                   <<"id", "v", "id", "v", "id", "v">>},
            c \in {None, Condition("v", ">", "1"), Condition("v", "<>", "1"),
                   Condition("zz", "=", "1"), Condition("v", "LIKE", "1")}}
    \cup {Statement("Insert", "t", <<>>, shape[1], shape[2], <<>>, None) :
            shape \in {<<<<"v">>, <<"1", "2">>>>, <<<<"id", "v">>, <<"1">>>>,
                       <<<<"zz">>, <<"1", "2">>>>, <<<<"id", "v">>, <<"1", "2">>>>}}
    \cup {Statement("Identifier", "t", <<>>, <<>>, <<>>, <<>>, None)}

\* The column lists of the tables a plan is validated against.
TableColumns == {<<"id", "v">>, <<"v">>, <<>>}

\* What the validation and the classifier make of a planning result.
Planned(ast, r, table_exists, columns) ==
    [op |-> "plan", ast |-> ast, planned |-> r, table_exists |-> table_exists,
     columns |-> columns,
     validated |-> IF r.ok THEN validate_plan(r.plan, table_exists, columns) ELSE "",
     complexity |-> IF r.ok THEN analyze_query_complexity(r.plan) ELSE ""]

\* QueryPlanner::plan on an AST, then analyze_query_complexity and
\* validate_plan on the plan.
Plan ==
    /\ last = Idle
    /\ \E ast \in PlanInputs, table_exists \in BOOLEAN, columns \in TableColumns :
          last' = Planned(ast, QueryPlanner_plan(ast), table_exists, columns)
    /\ UNCHANGED <<storage_engine, file, faults>>

NextPlan ==
    \/ Plan
    \/ Return

\* The planner under every AST of the set above.
SpecPlan == Init /\ [][NextPlan]_vars

\* ---- main: one line of the command loop through the statement pipeline

\* str::to_string on the text a parser took: the string its pieces spell.
RECURSIVE to_string(_)
to_string(pieces) ==
    IF pieces = <<>> THEN "" ELSE Head(pieces) \o to_string(Tail(pieces))

to_strings(list) == [i \in DOMAIN list |-> to_string(list[i])]

\* The WhereCondition of a statement, if any.
where_condition(condition) ==
    IF condition = <<>> THEN None
    ELSE Some([column |-> to_string(condition[1].column),
               operator |-> to_string(condition[1].operator),
               value |-> to_string(condition[1].value)])

\* The ASTNode the parser hands to the planner and the executor.
ASTNode(node) ==
    CASE node.kind = "SelectStatement" ->
            Statement("Select", to_string(node.table), to_strings(node.projection),
                      <<>>, <<>>, <<>>, where_condition(node.condition))
      [] node.kind = "DeleteStatement" ->
            Statement("Delete", to_string(node.table), <<>>, <<>>, <<>>, <<>>,
                      where_condition(node.condition))
      [] node.kind = "UpdateStatement" ->
            Statement("Update", to_string(node.table), <<>>, <<>>, <<>>,
                      [i \in DOMAIN node.assignments |-> to_strings(node.assignments[i])],
                      where_condition(node.condition))
      [] node.kind = "InsertStatement" ->
            Statement("Insert", to_string(node.table), <<>>, to_strings(node.columns),
                      to_strings(node.values), <<>>, None)

\* A command loop that executes every plan.
validate_never(engine, plan) == "Ok"

\* The validation of main: of a plan whose table the catalog has.
validate_if_exists(engine, plan) ==
    IF plan.table \in DOMAIN engine.tables
    THEN validate_plan(plan, TRUE, engine.tables[plan.table].columns)
    ELSE "Ok"

\* A statement that stopped before the executor, with the error it printed.
Stopped(stage, error, engine, disk) ==
    [stage |-> stage] @@ ExecResult(error, <<>>, FsResult("", engine, disk, "none"))

\* execute_sql_command from the match on the plan.
planned_then(engine, disk, ast, planned, env) ==
    IF ~planned.ok THEN Stopped("Query Planning Error", planned.err, engine, disk)
    ELSE IF validate_if_exists(engine, planned.plan) # "Ok"
    THEN Stopped("Query validation failed", validate_if_exists(engine, planned.plan),
                 engine, disk)
    ELSE [stage |-> "executed"] @@ execute(engine, disk, ast, env)

\* execute_sql_command from the match on the parse.
parsed_then(engine, disk, parsed, env) ==
    IF ~parsed.ok THEN Stopped("Parse Error", parsed.err, engine, disk)
    ELSE planned_then(engine, disk, ASTNode(parsed.ast),
                      QueryPlanner_plan(ASTNode(parsed.ast)), env)

\* execute_sql_command
execute_sql_command(engine, disk, input, env) ==
    parsed_then(engine, disk, parse(input), env)

\* The lines typed at the prompt: statements on the table t that pass and
\* that fail the validation, statements on a table that does not exist, and
\* lines that do not parse.
CliInputs ==
    { <<"INSERT", " ", "INTO", " ", "t", " ", "VALUES", " ", "(", "1", ",", "1", ")">>,
      <<"INSERT", " ", "INTO", " ", "t", " ", "(", "id", ",", "v", ")", " ",
        "VALUES", " ", "(", "2", ",", "'", "1", "'", ")">>,
      <<"INSERT", " ", "INTO", " ", "t", " ", "(", "id", ",", "v", ")", " ",
        "VALUES", " ", "(", "2", ")">>,
      <<"INSERT", " ", "INTO", " ", "t", " ", "(", "id", ",", "a", ")", " ",
        "VALUES", " ", "(", "2", ",", "1", ")">>,
      <<"INSERT", " ", "INTO", " ", "a", " ", "VALUES", " ", "(", "1", ")">>,
      <<"INSERT", " ", "INTO", " ", "t", " ", "VALUES", " ", "(", "1", ",", "1", ")", ";">>,
      <<"UPDATE", " ", "t", " ", "SET", " ", "v", "=", "2">>,
      <<"UPDATE", " ", "t", " ", "SET", " ", "v", "=", "2", " ", "WHERE", " ",
        "id", "=", "1">>,
      <<"UPDATE", " ", "t", " ", "SET", " ", "a", "=", "2">>,
      <<"UPDATE", " ", "t", " ", "SET", " ", "v", "=", "2", " ", "WHERE", " ",
        "a", "=", "1">>,
      <<"UPDATE", " ", "t", " ", "v", "=", "2">>,
      <<"DELETE", " ", "FROM", " ", "t", " ", "WHERE", " ", "v", ">", "=", "1">>,
      <<"DELETE", " ", "FROM", " ", "t", " ", "WHERE", " ", "a", ">", "=", "1">>,
      <<"DELETE", " ", "FROM", " ", "t">>,
      <<"DELETE", " ", "t">>,
      <<"select", " ", "*", " ", "from", " ", "t">>,
      <<"SELECT", " ", "a", " ", "FROM", " ", "t">>,
      <<"SELECT", " ", "v", " ", "FROM", " ", "a", " ", "WHERE", " ", "a", "=", "1">>,
      <<"t">> }

\* The result fits the bound on the rows of a table.
Fits(engine) ==
    \A name \in DOMAIN engine.tables :
        Cardinality(DOMAIN engine.tables[name].rows) <= MaxRows

\* One line through execute_sql_command.
ExecuteSqlCommand ==
    /\ last = Idle /\ WithinBounds
    /\ \E input \in CliInputs, env \in Envs :
          LET r == execute_sql_command(storage_engine, file, input, env)
          IN  /\ Consulted(r, env)
              /\ Fits(r.engine)
              /\ storage_engine' = r.engine
              /\ file' = r.file
              /\ faults' = IF r.save = "err" THEN faults + 1 ELSE faults
              /\ last' = [op |-> "execute_sql_command", input |-> input,
                          stage |-> r.stage, res |-> r.res, storage |-> r.storage]

NextCli ==
    \/ FsCreateTable
    \/ ExecuteSqlCommand
    \/ Return

\* The command loop: tables made as main makes them, then lines at the prompt.
SpecCli == Init /\ [][NextCli]_vars

\* ---------------------------------------------------------------- claims
\* The claims that quantify over the arguments of a call are stated of the
\* states in which the caller is ready to make one (last = Idle); every
\* engine and file the model reaches is reached in such a state.

Tables == storage_engine.tables

Metadata == storage_engine.metadata

HasPk(table) == IsSome(table.primary_key)

\* C1: for every table with a primary key K, no two rows of the table hold
\* the same value at K.
C1_PrimaryKeyUnique ==
    \A name \in DOMAIN Tables :
        LET table == Tables[name]
            K == table.primary_key[1]
        IN  HasPk(table) =>
                \A a, b \in DOMAIN table.rows :
                    (a # b /\ K \in DOMAIN table.rows[a] /\ K \in DOMAIN table.rows[b])
                        => table.rows[a][K] # table.rows[b][K]

\* C3: a successful insert_row gives the new row an id no live row holds, so
\* the table afterwards holds every previous row unchanged plus the new row,
\* and one row more than before.
C3_InsertAppends ==
    last = Idle =>
        \A name \in DOMAIN Tables, row \in Rows, now \in Times :
            LET before == Tables[name].rows
                r == insert_row(storage_engine, name, row, now)
                after == r.engine.tables[name].rows
            IN  r.res = "Ok" =>
                    /\ next_row_id(Tables[name]) \notin DOMAIN before
                    /\ \A id \in DOMAIN before : id \in DOMAIN after /\ after[id] = before[id]
                    /\ after[next_row_id(Tables[name])] = row
                    /\ Cardinality(DOMAIN after) = Cardinality(DOMAIN before) + 1

\* C4: every key of every row of every table is one of the table's columns.
C4_SchemaClosure ==
    \A name \in DOMAIN Tables :
        \A id \in DOMAIN Tables[name].rows :
            DOMAIN Tables[name].rows[id] \subseteq Range(Tables[name].columns)

\* C4 witness: an update has added a column to a stored row, in a table that
\* holds a row with every column of its schema.
C4_Witness ==
    /\ last.op = "update_rows" /\ last.res = "Ok"
    /\ last.table \in DOMAIN Tables
    /\ \E id \in DOMAIN Tables[last.table].rows :
          DOMAIN Tables[last.table].rows[id] = {"id", "v"}

Counters ==
    {"total_operations", "total_tables_created", "total_rows_inserted",
     "total_rows_updated", "total_rows_deleted"}

\* C5: no call on the storage engine, successful or failed, makes any of the
\* five counters smaller.
C5_CountersMonotone ==
    [][\A c \in Counters : storage_engine'.metadata[c] >= storage_engine.metadata[c]]_vars

\* C5 witness: a table has been dropped after a table was created and a row
\* inserted, so counters have grown and drop_table has run on them.
C5_Witness ==
    /\ last.op = "drop_table" /\ last.res = "Ok"
    /\ Metadata.total_rows_inserted > 0 /\ Metadata.total_tables_created > 0

\* A row with the primary-key value of a row the table already holds.
DuplicatesKey(table, row) ==
    /\ HasPk(table)
    /\ table.primary_key[1] \in DOMAIN row
    /\ \E id \in DOMAIN table.rows :
          /\ table.primary_key[1] \in DOMAIN table.rows[id]
          /\ table.rows[id][table.primary_key[1]] = row[table.primary_key[1]]

InsertEnvs == {e \in Envs : e.now = 1 /\ e.seed = 0}

\* C9 as claimed: inserting a row with the primary-key value of an existing row
\* fails with PrimaryKeyViolation (InsertFailed at the executor) and changes
\* neither the tables nor the metadata.
C9_DuplicateKeyIsPrimaryKeyViolation ==
    last = Idle =>
        \A name \in DOMAIN Tables, row \in Rows, now \in Times :
            DuplicatesKey(Tables[name], row) =>
                LET r == insert_row(storage_engine, name, row, now)
                IN  r.res = "PrimaryKeyViolation" /\ r.engine = storage_engine

\* C9 amended: inserting a row with the primary-key value of an existing row
\* fails, with PrimaryKeyViolation when every key of the row is a column of
\* the table and with ColumnNotFound otherwise, with InsertFailed at the
\* executor either way, and changes neither the tables nor the metadata (nor
\* the snapshot file).
C9_DuplicateKeyRejected ==
    last = Idle =>
        /\ \A name \in DOMAIN Tables, row \in Rows, now \in Times :
              DuplicatesKey(Tables[name], row) =>
                  LET r == insert_row(storage_engine, name, row, now)
                  IN  /\ r.res = IF DOMAIN row \subseteq Range(Tables[name].columns)
                                 THEN "PrimaryKeyViolation" ELSE "ColumnNotFound"
                      /\ r.engine = storage_engine
        /\ \A query \in InsertStatements, env \in InsertEnvs :
              (/\ query.table \in DOMAIN Tables
               /\ DuplicatesKey(Tables[query.table],
                                insert_row_data(storage_engine, query.table,
                                                query.columns, query.values))) =>
                  LET r == execute(storage_engine, file, query, env)
                  IN  r.res = "InsertFailed" /\ r.engine = storage_engine /\ r.file = file

\* C9 witness: an insert_row was refused with PrimaryKeyViolation while
\* another table exists too.
C9_Witness ==
    /\ last.op = "insert_row" /\ last.res = "PrimaryKeyViolation"
    /\ DOMAIN Tables = {"t", "u"}

\* The rows of a table without their row ids: each row with its multiplicity.
RowBag(rows) ==
    [row \in Range(rows) |-> Cardinality({id \in DOMAIN rows : rows[id] = row})]

\* C10: an insert followed by a delete whose predicate holds of the inserted
\* row and of no other row of the table leaves the rows the table had before
\* the insert (up to row ids).
C10_InsertDeleteRestores ==
    last = Idle =>
        \A name \in DOMAIN Tables, row \in Rows, closure \in DeleteClosures, now \in Times :
            LET before == Tables[name].rows
                inserted == insert_row(storage_engine, name, row, now)
                deleted == delete_rows(inserted.engine, name, closure, now)
            IN  (/\ inserted.res = "Ok"
                 /\ condition_fn(closure, row)
                 /\ \A id \in DOMAIN before : ~condition_fn(closure, before[id]))
                    => /\ deleted.res = "Ok"
                       /\ RowBag(deleted.engine.tables[name].rows) = RowBag(before)

\* C2: when execute returns an error, the tables are what they were before
\* the statement, also when it is the snapshot write that fails.
C2_FailedStatementChangesNothing ==
    last = Idle =>
        \A query \in Statements, io \in IoOutcomes :
            LET r == execute(storage_engine, file, query, [now |-> 1, io |-> io, seed |-> 0])
            IN  r.res # "Ok" => r.engine.tables = Tables

OkEnv(now, seed) == [now |-> now, io |-> "ok", seed |-> seed]

\* C6: whatever the iteration order of the maps, deserializing the
\* serialization of the engine gives the engine back, and so does
\* FileSystem::new on the file a successful save of the engine has written.
C6_SnapshotRoundTrip ==
    last = Idle =>
        \A seed \in HashSeeds :
            /\ deserialize(serialize(storage_engine, seed)) = Some(storage_engine)
            /\ LET saved == save_to_file(storage_engine, file, OkEnv(1, seed))
               IN  /\ saved.ok
                   /\ \A now \in Times :
                         FileSystem_new(saved.file, OkEnv(now, seed)) = storage_engine

\* C6 witness: a FileSystem has been opened on a snapshot that holds a table
\* whose row ids have a gap.
C6_Witness ==
    /\ last.op = "new" /\ last.storage = "Loaded"
    /\ \E seed \in HashSeeds : file = Some(serialize(storage_engine, seed))
    /\ \E name \in DOMAIN Tables :
          /\ Tables[name].rows # EmptyMap
          /\ DOMAIN Tables[name].rows # 0..(Cardinality(DOMAIN Tables[name].rows) - 1)

Delete(table, condition) == Statement("Delete", table, <<>>, <<>>, <<>>, <<>>, condition)

Update(table, assignments, condition) ==
    Statement("Update", table, <<>>, <<>>, <<>>, assignments, condition)

\* C7: a DELETE without WHERE leaves the tables, the metadata and the
\* snapshot file as they were.
C7_DeleteWithoutWhere ==
    last = Idle =>
        \A name \in TableNames, env \in Envs :
            LET r == execute(storage_engine, file, Delete(name, None), env)
            IN  r.engine = storage_engine /\ r.file = file

\* C7 witness: a DELETE without WHERE has run on a table that holds two rows.
C7_Witness ==
    /\ last.op = "Delete" /\ ~last.where
    /\ last.table \in DOMAIN Tables
    /\ Cardinality(DOMAIN Tables[last.table].rows) = 2

\* The value a SET list gives a column: that of its last assignment to it.
AssignedValue(assignments, column) ==
    LET i == CHOOSE i \in DOMAIN assignments :
                 /\ assignments[i][1] = column
                 /\ \A j \in DOMAIN assignments : j > i => assignments[j][1] # column
    IN  assignments[i][2]

\* C8: after a successful UPDATE without WHERE every row of the table holds
\* the assigned value at each assigned column, and the table has the rows
\* (row ids) it had.
C8_UpdateWithoutWhere ==
    last = Idle =>
        \A name \in TableNames, a \in Assignments, env \in Envs :
            LET r == execute(storage_engine, file, Update(name, a, None), env)
                rows == r.engine.tables[name].rows
            IN  r.res = "Ok" =>
                    /\ DOMAIN rows = DOMAIN Tables[name].rows
                    /\ \A id \in DOMAIN rows, i \in DOMAIN a :
                          /\ a[i][1] \in DOMAIN rows[id]
                          /\ rows[id][a[i][1]] = AssignedValue(a, a[i][1])

\* C8 witness: an UPDATE without WHERE has succeeded on a table that holds
\* two rows.
C8_Witness ==
    /\ last.op = "Update" /\ ~last.where /\ last.res = "Ok"
    /\ last.table \in DOMAIN Tables
    /\ Cardinality(DOMAIN Tables[last.table].rows) = 2

\* What the operating system answers a call whose file operations end as io.
IoEnv(io) == [now |-> 1, io |-> io, seed |-> 0]

\* C11: executing an UPDATE statement a second time, right after the first,
\* leaves the tables as the first execution left them, whatever the statement
\* and whether the snapshot writes of the two executions succeed or fail.
C11_UpdateIdempotent ==
    last = Idle =>
        \A query \in UpdateStatements, io \in IoOutcomes :
            LET once == execute(storage_engine, file, query, IoEnv(io))
                twice == execute(once.engine, once.file, query, IoEnv(io))
            IN  twice.engine.tables = once.engine.tables

\* C11 witness: an UPDATE with a WHERE has succeeded on a table, and executing
\* an UPDATE with a WHERE on that table again succeeds, matches a row again
\* and leaves the tables as they are.
C11_Witness ==
    /\ last.op = "Update" /\ last.res = "Ok" /\ last.where
    /\ Metadata.total_rows_updated > 0
    /\ \E query \in UpdateStatements :
          LET again == execute(storage_engine, file, query, IoEnv("ok"))
          IN  /\ query.table = last.table /\ IsSome(query.condition)
              /\ again.res = "Ok"
              /\ again.engine.metadata.total_rows_updated > Metadata.total_rows_updated
              /\ again.engine.tables = Tables

\* C12: a facade operation (create_table, insert_row, update_rows,
\* delete_rows, directly or through the executor) that changes the engine in
\* memory and whose file write does not fail leaves the snapshot file holding
\* the serialization of the engine it leaves in memory. In a run without
\* failed writes this is every operation that changes the engine.
C12_SnapshotFollowsMemory ==
    [][(/\ storage_engine' # storage_engine
        /\ last'.op # "new"
        /\ faults' = faults)
          => \E seed \in HashSeeds : file' = Some(serialize(storage_engine', seed))]_vars

\* C12 witness: in a run without a failed file operation a DELETE has removed
\* a row, and the file holds the engine without that row.
C12_Witness ==
    /\ last.op = "Delete" /\ faults = 0
    /\ Metadata.total_rows_deleted > 0
    /\ \E seed \in HashSeeds : file = Some(serialize(storage_engine, seed))

\* An engine as StorageEngine::new makes it: no tables, all counters zero.
IsFresh(engine) ==
    /\ engine.tables = EmptyMap
    /\ \A c \in Counters : engine.metadata[c] = 0

\* C13: FileSystem::new always returns an engine and leaves the file as it
\* is; the engine is the deserialized snapshot when the file exists, is read
\* and deserializes, and a fresh empty engine when the file is missing, cannot
\* be read or does not deserialize.
C13_NewFallsBack ==
    [][last'.op = "new" =>
          /\ file' = file
          /\ IF IsSome(file) /\ faults' = faults /\ IsSome(deserialize(file[1]))
             THEN storage_engine' = deserialize(file[1])[1]
             ELSE IsFresh(storage_engine')]_vars

\* C13 witness: a FileSystem has been opened on a file that a failed write
\* left truncated, and has started with a fresh engine.
C13_Witness ==
    /\ last.op = "new" /\ last.storage = "Fresh"
    /\ IsSome(file) /\ ~IsSome(deserialize(file[1]))
    /\ IsFresh(storage_engine)

\* Arguments of create_table: good and blank names, empty, duplicated and
\* proper column lists, primary keys inside and outside the columns.
CreateCalls ==
    [name : {"t", "u", " ", ""},
     columns : {<<>>, <<"v">>, <<"v", "v">>, <<"id", "v">>},
     primary_key : {None, Some("id"), Some("v")}]

\* What the claim says create_table returns.
CreateOutcome(c) ==
    IF c.name \in {"", " "} THEN "InvalidTableName"
    ELSE IF c.name \in DOMAIN Tables THEN "TableAlreadyExists"
    ELSE IF c.columns = <<>> \/ Cardinality(Range(c.columns)) < Len(c.columns)
    THEN "InvalidSchema"
    ELSE IF IsSome(c.primary_key) /\ c.primary_key[1] \notin Range(c.columns)
    THEN "InvalidSchema"
    ELSE "Ok"

\* C14: create_table returns the first applicable of InvalidTableName (empty
\* or blank name), TableAlreadyExists, InvalidSchema (no column or a duplicate
\* column), InvalidSchema (primary key not a column); a failure changes
\* nothing; a success adds the table with no rows, leaves the other tables
\* alone and adds one to total_tables_created.
C14_CreateTableOutcome ==
    last = Idle =>
        \A c \in CreateCalls, now \in Times :
            LET r == create_table(storage_engine, c.name, c.columns, c.primary_key, now)
            IN  /\ r.res = CreateOutcome(c)
                /\ r.res # "Ok" => r.engine = storage_engine
                /\ r.res = "Ok" =>
                      /\ DOMAIN r.engine.tables = (DOMAIN Tables) \cup {c.name}
                      /\ \A name \in DOMAIN Tables : r.engine.tables[name] = Tables[name]
                      /\ r.engine.tables[c.name] =
                            [columns |-> c.columns, rows |-> EmptyMap,
                             primary_key |-> c.primary_key]
                      /\ r.engine.metadata.total_tables_created =
                            Metadata.total_tables_created + 1

\* C14 witness: a create_table of an existing table has been refused with
\* TableAlreadyExists while both tables exist.
C14_Witness ==
    /\ last.op = "create_table" /\ last.res = "TableAlreadyExists"
    /\ DOMAIN Tables = {"t", "u"}

\* A table with at least one column, no column twice and a primary key, if
\* any, among its columns.
WellFormed(table) ==
    /\ table.columns # <<>>
    /\ \A i, j \in DOMAIN table.columns : i # j => table.columns[i] # table.columns[j]
    /\ HasPk(table) => \E i \in DOMAIN table.columns : table.columns[i] = table.primary_key[1]

\* C15: every table of every reachable state is well formed, and a table that
\* exists before and after a call has the columns and the primary key it had.
C15_SchemaWellFormed ==
    /\ [](\A name \in DOMAIN Tables : WellFormed(Tables[name]))
    /\ [][\A name \in (DOMAIN Tables) \cap (DOMAIN storage_engine'.tables) :
            /\ storage_engine'.tables[name].columns = Tables[name].columns
            /\ storage_engine'.tables[name].primary_key = Tables[name].primary_key]_vars

\* C15 witness: a create_table has been refused for its schema while a table
\* with a primary key holds a row.
C15_Witness ==
    /\ last.op = "create_table" /\ last.res = "InvalidSchema"
    /\ "t" \in DOMAIN Tables
    /\ Tables["t"].rows # EmptyMap

\* What the claim says insert_row returns.
InsertOutcome(name, row) ==
    IF name \notin DOMAIN Tables THEN "TableNotFound"
    ELSE IF \E k \in DOMAIN row : \A i \in DOMAIN Tables[name].columns :
                                      Tables[name].columns[i] # k
    THEN "ColumnNotFound"
    ELSE IF HasPk(Tables[name]) /\ Tables[name].primary_key[1] \notin DOMAIN row
    THEN "MissingPrimaryKey"
    ELSE IF DuplicatesKey(Tables[name], row) THEN "PrimaryKeyViolation"
    ELSE "Ok"

\* C16: insert_row returns the first applicable of TableNotFound,
\* ColumnNotFound, MissingPrimaryKey and PrimaryKeyViolation, and Ok when none
\* applies; a failure changes neither the tables nor the metadata.
C16_InsertRowOutcome ==
    last = Idle =>
        \A name \in TableNames, row \in Rows, now \in Times :
            LET r == insert_row(storage_engine, name, row, now)
            IN  /\ r.res = InsertOutcome(name, row)
                /\ r.res # "Ok" => r.engine = storage_engine

\* C16 witness: an insert_row into a table with a primary key that holds a
\* row has been refused for its missing key.
C16_Witness ==
    /\ last.op = "insert_row" /\ last.res = "MissingPrimaryKey"
    /\ Tables[last.table].rows # EmptyMap

\* Update maps that assign the primary key id: alone, with another column,
\* with a column no table has.
KeyUpdates ==
    {[c \in {"id"} |-> "1"], [c \in {"id"} |-> "2"],
     [c \in {"id", "v"} |-> "2"], [c \in {"id", "zz"} |-> "2"]}

Closures == UpdateClosures \cup DeleteClosures

\* The rows of the table the predicate holds of.
Selected(name, closure) ==
    {id \in DOMAIN Tables[name].rows : condition_fn(closure, Tables[name].rows[id])}

\* A row the predicate does not hold of has the primary-key value of updates.
KeyHeldByUnselected(name, updates, closure) ==
    \E id \in (DOMAIN Tables[name].rows) \ Selected(name, closure) :
        /\ Tables[name].primary_key[1] \in DOMAIN Tables[name].rows[id]
        /\ Tables[name].rows[id][Tables[name].primary_key[1]] =
              updates[Tables[name].primary_key[1]]

\* update_rows returned r: every selected row has the updates, every other
\* row and table is as it was, r.n is the number of selected rows.
UpdatesApplied(r, name, updates, closure) ==
    /\ r.res = "Ok"
    /\ r.n = Cardinality(Selected(name, closure))
    /\ DOMAIN r.engine.tables = DOMAIN Tables
    /\ \A other \in (DOMAIN Tables) \ {name} : r.engine.tables[other] = Tables[other]
    /\ DOMAIN r.engine.tables[name].rows = DOMAIN Tables[name].rows
    /\ \A id \in DOMAIN Tables[name].rows :
          LET old == Tables[name].rows[id]
              new == r.engine.tables[name].rows[id]
          IN  IF id \in Selected(name, closure)
              THEN /\ DOMAIN new = (DOMAIN old) \cup (DOMAIN updates)
                   /\ \A c \in DOMAIN new :
                         new[c] = IF c \in DOMAIN updates THEN updates[c] ELSE old[c]
              ELSE new = old

\* C17 as claimed: update_rows with the primary key among the updates fails
\* with PrimaryKeyViolation, changing nothing, exactly when a row the predicate
\* does not hold of has the new key value; otherwise it applies the updates to
\* the rows the predicate holds of and returns their number.
C17_KeyUpdateOutcome ==
    last = Idle =>
        \A name \in DOMAIN Tables, updates \in KeyUpdates, closure \in Closures,
           now \in Times :
            HasPk(Tables[name]) =>
                LET r == update_rows(storage_engine, name, updates, closure, now)
                IN  IF KeyHeldByUnselected(name, updates, closure)
                    THEN r.res = "PrimaryKeyViolation" /\ r.engine = storage_engine
                    ELSE UpdatesApplied(r, name, updates, closure)

\* C17 amended: when every updated column is a column of the table, the
\* outcome is as claimed; when one is not, update_rows fails with
\* ColumnNotFound and changes nothing, whatever the primary-key values.
C17_KeyUpdateOutcomeOfKnownColumns ==
    last = Idle =>
        \A name \in DOMAIN Tables, updates \in KeyUpdates, closure \in Closures,
           now \in Times :
            HasPk(Tables[name]) =>
                LET r == update_rows(storage_engine, name, updates, closure, now)
                IN  IF \E c \in DOMAIN updates : \A i \in DOMAIN Tables[name].columns :
                                                     Tables[name].columns[i] # c
                    THEN r.res = "ColumnNotFound" /\ r.engine = storage_engine
                    ELSE IF KeyHeldByUnselected(name, updates, closure)
                    THEN r.res = "PrimaryKeyViolation" /\ r.engine = storage_engine
                    ELSE UpdatesApplied(r, name, updates, closure)

\* C17 witness: an update of the primary key has been refused with
\* PrimaryKeyViolation in a table that holds two rows.
C17_Witness ==
    /\ last.op = "update_rows" /\ last.res = "PrimaryKeyViolation"
    /\ Cardinality(DOMAIN Tables[last.table].rows) = 2

\* Column lists of a SELECT: all columns, one column, a column no row has,
\* two columns, no column.
Projections == {<<"*">>, <<"v">>, <<"zz">>, <<"id", "v">>, <<>>}

Select(table, projection, condition) ==
    Statement("Select", table, projection, <<>>, <<>>, <<>>, condition)

\* The ids of the stored rows of a table that satisfy a WHERE clause.
Satisfying(name, condition) ==
    {id \in DOMAIN Tables[name].rows :
        IsSome(condition) => evaluate(condition[1], Tables[name].rows[id])}

\* The result row the claim gives a stored row.
Projected(projection, row) ==
    IF projection = <<"*">> THEN row
    ELSE [c \in {projection[i] : i \in DOMAIN projection} |->
             IF c \in DOMAIN row THEN row[c] ELSE ""]

\* C18: a SELECT on an existing table returns Ok with one result row per
\* stored row that satisfies the WHERE clause (per stored row without one),
\* each the stored row itself under `*` and otherwise a row of exactly the
\* projected columns holding the stored value or ""; on a missing table it
\* returns TableNotFound; it changes neither the engine nor the file.
C18_SelectResult ==
    last = Idle =>
        \A name \in TableNames, projection \in Projections, condition \in Conditions,
           seed \in HashSeeds :
            LET r == execute(storage_engine, file, Select(name, projection, condition),
                             [now |-> 1, io |-> "ok", seed |-> seed])
            IN  /\ r.engine = storage_engine /\ r.file = file
                /\ IF name \notin DOMAIN Tables THEN r.res = "TableNotFound"
                   ELSE /\ r.res = "Ok"
                        /\ Len(r.rows) = Cardinality(Satisfying(name, condition))
                        /\ \A id \in Satisfying(name, condition) :
                              LET x == Projected(projection, Tables[name].rows[id])
                              IN  Cardinality({i \in DOMAIN r.rows : r.rows[i] = x}) =
                                  Cardinality({other \in Satisfying(name, condition) :
                                      Projected(projection, Tables[name].rows[other]) = x})

\* C18 witness: a SELECT with a WHERE has returned Ok on a table that holds
\* two rows, one of which satisfies a WHERE clause and one of which does not.
C18_Witness ==
    /\ last.op = "Select" /\ last.res = "Ok" /\ last.where
    /\ Cardinality(DOMAIN Tables[last.table].rows) = 2
    /\ \E condition \in Conditions :
          Cardinality(Satisfying(last.table, condition)) = 1

\* The signed 32-bit integer a string denotes, 0 for a string that denotes
\* none.
IntOf(s) ==
    CASE s = "1" -> 1
      [] s = "2" -> 2
      [] s = "-1" -> 0 - 1
      [] s = "10" -> 10
      [] s = "+1" -> 1
      [] s = "2147483647" -> I32Max
      [] s = "-2147483648" -> I32Min
      [] OTHER -> 0

\* What the claim says evaluate returns.
Holds(cond, row) ==
    IF cond.column \notin DOMAIN row THEN FALSE
    ELSE CASE cond.operator = "=" -> row[cond.column] = cond.value
           [] cond.operator \in {"!=", "<>"} -> row[cond.column] # cond.value
           [] cond.operator = ">" -> IntOf(row[cond.column]) > IntOf(cond.value)
           [] cond.operator = "<" -> IntOf(row[cond.column]) < IntOf(cond.value)
           [] cond.operator = ">=" -> IntOf(row[cond.column]) >= IntOf(cond.value)
           [] cond.operator = "<=" -> IntOf(row[cond.column]) <= IntOf(cond.value)
           [] OTHER -> FALSE

\* C19: evaluate is false when the row has no entry at the column; otherwise
\* = is string equality, != and <> string inequality, >, <, >=, <= compare
\* the two sides as i32 with 0 for a side that does not parse, and any other
\* operator gives false.
C19_Evaluate ==
    last.op = "evaluate" => last.res = Holds(last.condition, last.row)

\* C19 witness: evaluate has compared a string that is no number with a
\* negative number and found it greater.
C19_Witness ==
    /\ last.op = "evaluate" /\ last.res
    /\ last.condition.operator = ">" /\ last.condition.value = "-1"
    /\ last.row = [c \in {"v"} |-> "x"]

\* The four statements of the AST.
StatementKinds ==
    {"SelectStatement", "InsertStatement", "UpdateStatement", "DeleteStatement"}

\* C20: Parser::parse returns either the AST of one of the four statements
\* or an error; it returns an AST only where the statement parser consumed
\* the whole trimmed input, and an error where non-whitespace input is left
\* after the statement, as after a parsed query followed by a semicolon.
C20_ParseTotal ==
    last.op = "parse" =>
        /\ last.res.ok => last.res.ast.kind \in StatementKinds
        /\ ~last.res.ok =>
              last.res.err \in {"Parse error", "Unexpected input after query"}
        /\ last.res.ok =>
              /\ last.statement.ok
              /\ last.statement.rest = <<>>
              /\ last.res.ast = last.statement.val
        /\ (last.statement.ok /\ \E i \in DOMAIN last.statement.rest :
                                    last.statement.rest[i] \notin Whitespace)
              => ~last.res.ok
        /\ last.res.ok => ~parse(last.input \o <<";">>).ok

\* C20 witness: a DELETE with a condition was parsed up to a semicolon that
\* follows it, and the parse returned an error.
C20_Witness ==
    /\ last.op = "parse" /\ ~last.res.ok
    /\ last.statement.ok /\ last.statement.rest = <<";">>
    /\ last.statement.val.kind = "DeleteStatement"
    /\ last.statement.val.condition # <<>>

\* C21: whenever the storage operation behind a statement fails, execute
\* returns an Err for that statement, for each of SELECT, INSERT, UPDATE and
\* DELETE.
C21_ErrorsBubble ==
    (last.op \in {"Select", "Insert", "Update", "Delete"} /\ last.storage # "Ok")
        => last.res # "Ok"

\* The primary step of each statement kind.
PrimaryStep(type) ==
    CASE type = "Select" -> "TableScan"
      [] type = "Insert" -> "InsertRow"
      [] type = "Update" -> "UpdateRows"
      [] type = "Delete" -> "DeleteRows"

\* The kinds of the steps the claim gives the plan of an AST.
StepKinds(ast) ==
    <<PrimaryStep(ast.type)>>
    \o (IF ast.condition # None THEN <<"FilterRows">> ELSE <<>>)
    \o (IF ast.type = "Select" /\ ast.projection # <<"*">>
        THEN <<"ProjectColumns">> ELSE <<>>)

\* C23: the execution steps of a plan are one primary step (a TableScan with
\* estimated_rows 1000 for SELECT, InsertRow, UpdateRows or DeleteRows), then
\* FilterRows exactly when the statement has a WHERE condition, then
\* ProjectColumns exactly when it is a SELECT whose projection is not the
\* single wildcard; the plan of an INSERT has one step.
C23_ExecutionSteps ==
    (last.op = "plan" /\ last.planned.ok) =>
        LET steps == last.planned.plan.execution_steps
        IN  /\ [i \in DOMAIN steps |-> steps[i].step] = StepKinds(last.ast)
            /\ last.ast.type = "Select" => steps[1].estimated_rows = 1000
            /\ last.ast.type = "Insert" => Len(steps) = 1

\* C23 witness: a SELECT of two columns with a WHERE condition has been
\* planned into three steps.
C23_Witness ==
    /\ last.op = "plan" /\ last.planned.ok
    /\ last.ast.type = "Select" /\ last.ast.projection = <<"id", "v">>
    /\ last.ast.condition # None
    /\ Len(last.planned.plan.execution_steps) = 3

\* Whether the AST names a column that is not among the columns.
NamesUnknownColumn(ast, columns) ==
    \/ \E i \in DOMAIN ast.projection :
          ast.projection[i] # "*" /\ ast.projection[i] \notin Range(columns)
    \/ ast.condition # None /\ ast.condition[1].column \notin Range(columns)
    \/ \E i \in DOMAIN ast.assignments : ast.assignments[i][1] \notin Range(columns)
    \/ \E i \in DOMAIN ast.columns : ast.columns[i] \notin Range(columns)

\* C24: validate_plan fails with TableNotFound when table_exists is false;
\* otherwise with ColumnNotFound when a projected column other than the
\* wildcard, the WHERE column, an assigned column or a listed insert column
\* is not a table column; otherwise with InvalidQuery when a non-empty insert
\* column list and the value list differ in length; and succeeds otherwise.
C24_ValidatePlan ==
    (last.op = "plan" /\ last.planned.ok) =>
        last.validated =
            IF ~last.table_exists THEN "TableNotFound"
            ELSE IF NamesUnknownColumn(last.ast, last.columns) THEN "ColumnNotFound"
            ELSE IF last.ast.columns # <<>>
                    /\ Len(last.ast.columns) # Len(last.ast.values)
            THEN "InvalidQuery"
            ELSE "Ok"

\* C24 witness: an INSERT that lists an unknown column and has more values
\* than columns has been validated against an existing table and failed with
\* ColumnNotFound.
C24_Witness ==
    /\ last.op = "plan" /\ last.planned.ok /\ last.table_exists
    /\ last.ast.type = "Insert" /\ last.ast.columns = <<"zz">>
    /\ Len(last.ast.values) = 2
    /\ last.validated = "ColumnNotFound"

\* C30: the complexity of the plan of a statement is Simple or Medium and
\* never Complex; the score is at most 5.
C30_NeverComplex ==
    (last.op = "plan" /\ last.planned.ok) =>
        /\ last.complexity \in {"Simple", "Medium"}
        /\ complexity_score(last.planned.plan) <= 5

\* C30 witness: an UPDATE with a WHERE condition has been planned; its score
\* is 5 and its complexity Medium.
C30_Witness ==
    /\ last.op = "plan" /\ last.planned.ok
    /\ last.ast.type = "Update" /\ last.ast.condition # None
    /\ complexity_score(last.planned.plan) = 5
    /\ last.complexity = "Medium"

\* Column lists and value lists of an INSERT: shorter, longer and as long as
\* one another, with a column listed twice and with an unknown column.
ListedColumns == {<<"v">>, <<"id", "v">>, <<"v", "v">>, <<"zz">>, <<"v", "id", "v">>}

ValueLists == {<<>>, <<"1">>, <<"1", "2">>, <<"2", "1", "2">>}

Min(a, b) == IF a < b THEN a ELSE b

\* Key i maps to value i for every i below the shorter length, and there are
\* no other keys.
ZippedByPosition(row, keys, vals) ==
    /\ DOMAIN row = {keys[i] : i \in 1..Min(Len(keys), Len(vals))}
    /\ \A i \in 1..Min(Len(keys), Len(vals)) : row[keys[i]] = vals[i]

\* As ZippedByPosition, where a key that occurs at several positions below
\* the shorter length maps to the value at the last of them.
ZippedLastWins(row, keys, vals) ==
    /\ DOMAIN row = {keys[i] : i \in 1..Min(Len(keys), Len(vals))}
    /\ \A i \in 1..Min(Len(keys), Len(vals)) :
          (\A j \in (i + 1)..Min(Len(keys), Len(vals)) : keys[j] # keys[i])
              => row[keys[i]] = vals[i]

\* C25 as stated: the row of an INSERT maps table column i (empty column
\* list) or listed column i (explicit list) to value i for every i below
\* the shorter length, and has no other keys.
C25_PositionalZip ==
    last = Idle =>
        \A name \in DOMAIN Tables, values \in ValueLists :
            /\ ZippedByPosition(insert_row_data(storage_engine, name, <<>>, values),
                                Tables[name].columns, values)
            /\ \A columns \in ListedColumns :
                  ZippedByPosition(insert_row_data(storage_engine, name, columns, values),
                                   columns, values)

\* C25 amended: as stated, except that a column listed more than once maps
\* to the value at its last position below the shorter length.
C25_PositionalZipLastWins ==
    last = Idle =>
        \A name \in DOMAIN Tables, values \in ValueLists :
            /\ ZippedByPosition(insert_row_data(storage_engine, name, <<>>, values),
                                Tables[name].columns, values)
            /\ \A columns \in ListedColumns :
                  ZippedLastWins(insert_row_data(storage_engine, name, columns, values),
                                 columns, values)

\* C25 witness: an INSERT into the one-column table u has succeeded, and an
\* INSERT of two values without a column list builds a row of the first value
\* alone, one that lists v twice a row of the second.
C25_Witness ==
    /\ last.op = "Insert" /\ last.res = "Ok" /\ last.table = "u"
    /\ "u" \in DOMAIN Tables /\ Tables["u"].rows # EmptyMap
    /\ insert_row_data(storage_engine, "u", <<>>, <<"1", "2">>) = [c \in {"v"} |-> "1"]
    /\ insert_row_data(storage_engine, "u", <<"v", "v">>, <<"1", "2">>)
          = [c \in {"v"} |-> "2"]

\* The call that returned r raised total_operations by ops, the counter
\* field by n, and no other counter.
Counted(r, ops, field, n) ==
    \A c \in Counters :
        r.engine.metadata[c] =
            Metadata[c] + (IF c = "total_operations" THEN ops ELSE IF c = field THEN n ELSE 0)

\* The call that returned r affected n rows: the counters are as they were
\* when it failed or n is zero, and raised by one operation and n rows
\* otherwise.
CountedRows(r, field, n) ==
    IF r.res = "Ok" /\ n >= 1 THEN Counted(r, 1, field, n) ELSE Counted(r, 0, field, 0)

\* C26: a successful create_table or insert_row raises total_operations and
\* total_tables_created or total_rows_inserted by 1; an update_rows or
\* delete_rows that affects n >= 1 rows raises total_operations by 1 and
\* total_rows_updated or total_rows_deleted by n; a call that fails or
\* affects no row leaves every counter as it was.
C26_MetadataAccounting ==
    last = Idle =>
        /\ \A c \in CreateInputs, now \in Times :
              LET r == create_table(storage_engine, c.name, c.columns, c.primary_key, now)
              IN  CountedRows(r, "total_tables_created", 1)
        /\ \A name \in TableNames, row \in Rows, now \in Times :
              LET r == insert_row(storage_engine, name, row, now)
              IN  CountedRows(r, "total_rows_inserted", 1)
        /\ \A name \in TableNames, a \in Assignments, closure \in Closures, now \in Times :
              LET r == update_rows(storage_engine, name, update_map(a), closure, now)
              IN  /\ r.res = "Ok" => r.n = Cardinality(Selected(name, closure))
                  /\ CountedRows(r, "total_rows_updated", r.n)
        /\ \A name \in TableNames, closure \in Closures, now \in Times :
              LET r == delete_rows(storage_engine, name, closure, now)
              IN  /\ r.res = "Ok" =>
                        r.n = Cardinality(DOMAIN Tables[name].rows)
                                - Cardinality(DOMAIN r.engine.tables[name].rows)
                  /\ CountedRows(r, "total_rows_deleted", r.n)

\* C26 witness: a table was created, two rows inserted and both deleted by
\* one delete_rows: four operations, two rows deleted.
C26_Witness ==
    /\ last.op = "delete_rows" /\ last.res = "Ok"
    /\ Metadata.total_operations = 4
    /\ Metadata.total_tables_created = 1
    /\ Metadata.total_rows_inserted = 2
    /\ Metadata.total_rows_deleted = 2

\* The engine of the next state is the engine that the call of the next
\* state, with its storage operation successful, leaves when its write
\* succeeds.
AsIfWritten ==
    IF last'.op = "create_table"
    THEN \E c \in CreateInputs :
            LET r == FileSystem_create_table(storage_engine, file, c.name, c.columns,
                                             c.primary_key, IoEnv("ok"))
            IN  c.name = last'.table /\ r.res = "Ok" /\ storage_engine' = r.engine
    ELSE \E query \in Statements :
            LET r == execute(storage_engine, file, query, IoEnv("ok"))
            IN  /\ query.type = last'.op /\ query.table = last'.table
                /\ r.storage = "Ok" /\ storage_engine' = r.engine

\* C27: a call whose snapshot write fails leaves the engine in memory as the
\* call leaves it when its storage operation and its write succeed (the
\* change is retained); and once a write has failed, every later call that
\* changes the engine and whose write succeeds leaves a snapshot from which
\* FileSystem::new loads exactly the engine in memory.
C27_RetainedAndResynced ==
    /\ [][(faults' > faults /\ last'.op # "new") => AsIfWritten]_vars
    /\ [][(/\ faults > 0 /\ faults' = faults
           /\ last'.op \notin {"new", "idle"}
           /\ storage_engine' # storage_engine)
            => /\ file' = Some(serialize(storage_engine', 0))
               /\ FileSystem_new(file', IoEnv("ok")) = storage_engine']_vars

\* C27 witness: the write of an INSERT has failed; the row is in the table in
\* memory and not in the file, and a further INSERT whose write succeeds
\* leaves a snapshot that holds both rows.
C27_Witness ==
    /\ last.op = "Insert" /\ last.res = "InsertFailed" /\ last.storage = "IoError"
    /\ faults = 1
    /\ Cardinality(DOMAIN Tables[last.table].rows) = 1
    /\ \A seed \in HashSeeds : file # Some(serialize(storage_engine, seed))
    /\ \E query \in InsertStatements :
          LET r == execute(storage_engine, file, query, IoEnv("ok"))
          IN  /\ query.table = last.table /\ r.res = "Ok"
              /\ Cardinality(DOMAIN FileSystem_new(r.file, IoEnv("ok"))
                                        .tables[last.table].rows) = 2

\* Update maps: of a plain column, and the update maps of the primary key.
FrameUpdates == KeyUpdates \cup {[c \in {"v"} |-> "1"], [c \in {"v"} |-> "2"]}

\* Every table but name is in after as it is in the engine.
OthersUnchanged(after, name) ==
    /\ DOMAIN after.tables = DOMAIN Tables
    /\ \A other \in (DOMAIN Tables) \ {name} : after.tables[other] = Tables[other]

\* Every row of the table name the predicate does not hold of is in after
\* with the values it has in the engine.
UnselectedKept(after, name, closure) ==
    name \in DOMAIN Tables =>
        \A id \in (DOMAIN Tables[name].rows) \ Selected(name, closure) :
            /\ id \in DOMAIN after.tables[name].rows
            /\ after.tables[name].rows[id] = Tables[name].rows[id]

\* C29: insert_row, update_rows and delete_rows on a table leave every other
\* table as it was, whether they succeed or fail; update_rows and delete_rows
\* leave every row of the table of which the predicate does not hold in
\* place with its values, and delete_rows adds no row.
C29_RowMutationFrame ==
    last = Idle =>
        \A name \in TableNames, now \in Times :
            /\ \A row \in Rows :
                  OthersUnchanged(insert_row(storage_engine, name, row, now).engine, name)
            /\ \A updates \in FrameUpdates, closure \in Closures :
                  LET r == update_rows(storage_engine, name, updates, closure, now)
                  IN  /\ OthersUnchanged(r.engine, name)
                      /\ UnselectedKept(r.engine, name, closure)
            /\ \A closure \in Closures :
                  LET r == delete_rows(storage_engine, name, closure, now)
                  IN  /\ OthersUnchanged(r.engine, name)
                      /\ UnselectedKept(r.engine, name, closure)
                      /\ name \in DOMAIN Tables =>
                            DOMAIN r.engine.tables[name].rows \subseteq DOMAIN Tables[name].rows

\* C29 witness: a delete_rows with a WHERE clause has removed one row of a
\* table of two rows and left the other.
C29_Witness ==
    /\ last.op = "delete_rows" /\ last.res = "Ok" /\ last.where
    /\ Metadata.total_rows_inserted = 2
    /\ Metadata.total_rows_deleted = 1
    /\ Cardinality(DOMAIN Tables[last.table].rows) = 1

\* The two-character and the one-character operators.
TwoCharacterOperators == {<<">", "=">>, <<"<", "=">>, <<"!", "=">>, <<"<", ">">>}

OneCharacterOperators == {<<"=">>, <<">">>, <<"<">>}

\* The operator text of a clause: the operator characters that follow its
\* column and the spaces after it.
OperatorText(clause) ==
    LET column == span(clause, Alphanumeric)
        after == SubSeq(clause, column + 1, Len(clause))
        spaces == span(after, Multispace)
        from == SubSeq(after, spaces + 1, Len(after))
    IN  SubSeq(from, 1, span(from, OperatorPieces))

\* C28: parse_where_condition on a clause whose operator text is one of >=,
\* <=, != and <> succeeds with that operator; whenever it succeeds its
\* operator is the start of the operator text, and a one-character operator
\* only where the operator text does not start with a two-character operator.
C28_LongestMatch ==
    last.op = "parse_where_condition" =>
        LET text == OperatorText(last.input)
        IN  /\ text \in TwoCharacterOperators =>
                  last.res.ok /\ last.res.val.operator = text
            /\ last.res.ok =>
                  /\ last.res.val.operator \in
                        TwoCharacterOperators \cup OneCharacterOperators
                  /\ last.res.val.operator =
                        SubSeq(text, 1, Len(last.res.val.operator))
                  /\ last.res.val.operator \in OneCharacterOperators =>
                        (Len(text) < 2 \/ SubSeq(text, 1, 2) \notin TwoCharacterOperators)

\* C28 witness: the clause a >= 1 has been parsed into the operator >=.
C28_Witness ==
    /\ last.op = "parse_where_condition"
    /\ OperatorText(last.input) = <<">", "=">>
    /\ last.res.ok /\ last.res.val.operator = <<">", "=">>
    /\ last.res.val.value = <<"1">>

\* The line is refused before the executor in the engine as it is: it does
\* not parse, it has no plan, or its plan fails validate_plan against the
\* columns of its table, which exists.
Refused(input) ==
    \/ ~parse(input).ok
    \/ ~QueryPlanner_plan(ASTNode(parse(input).ast)).ok
    \/ LET plan == QueryPlanner_plan(ASTNode(parse(input).ast)).plan
       IN  /\ plan.table \in DOMAIN Tables
           /\ validate_plan(plan, TRUE, Tables[plan.table].columns) # "Ok"

\* C22: a line that does not parse, has no plan, or whose plan fails
\* validate_plan against its existing table stops before the executor and
\* leaves the tables, the metadata and the snapshot file as they were.
C22_RefusedInputFramed ==
    [][(last'.op = "execute_sql_command" /\ Refused(last'.input))
         => /\ last'.stage # "executed"
            /\ storage_engine' = storage_engine
            /\ file' = file]_vars

\* C22 witness: an INSERT that lists two columns for one value has failed the
\* validation against its table, and the executor would have stored its row.
C22_Witness ==
    /\ last.op = "execute_sql_command"
    /\ last.stage = "Query validation failed" /\ last.res = "InvalidQuery"
    /\ execute(storage_engine, file, ASTNode(parse(last.input).ast), IoEnv("ok")).engine
          # storage_engine

====
